---- MODULE Spec2Model ----
(***************************************************************************)
(* Model of soulteary/audit-kit: the asynchronous Writer (bounded queue,   *)
(* worker pool, Stop) of writer.go and the Query/Write operations of the   *)
(* storage backends (file, cache-store, relational).                        *)
(***************************************************************************)
EXTENDS Integers, Sequences, FiniteSets, Bags, TLC

\* ------------------------------------------------------------------ bounds
NumWorkers == 2      \* WriterConfig.Workers of the modelled Writer
QueueSize == 1       \* WriterConfig.QueueSize of the modelled Writer
MaxRecords == 2      \* number of Enqueue calls made by the callers
NumStoppers == 2     \* number of (possibly concurrent) callers of Stop

Stoppers == 1..NumStoppers
RecordIds == 1..MaxRecords
BackendKinds == {"mock", "file"}

VARIABLES
    \* ---- Writer (writer.go:27-42)
    queue,            \* contents of the buffered channel w.queue, head first
    closed,           \* close(w.queue) has been executed
    cancelled,        \* w.ctx is done (w.cancel() has been executed)
    started,          \* w.started
    stopped,          \* w.stopped
    workers,          \* the worker goroutines: a bag of [pc, rec] (ids only label log lines)
    \* ---- callers of Stop
    spc,              \* position of each Stop call
    sret,             \* what each Stop call returned
    swait,            \* how the Stop call left its wait: "none", "done", "timeout"
    \* ---- backend bound to the Writer
    backend,          \* which Storage is bound: "mock" (mockStorage) or "file" (FileStorage)
    storageCloses,    \* number of Close calls the backend has received
    \* ---- observations (what callers, callbacks and the backend have seen)
    enq,              \* result of the k-th Enqueue call; the k-th call passes record k
    enqueueFailedLog, \* records passed to onEnqueueFailed, in order
    writeLog,         \* backend Write calls, in order: [rec, res]
    writeFailedLog,   \* onWriteFailed calls, in order: [rec, err]
    cancels,          \* number of w.cancel() calls made by Stop
    queueCloses,      \* number of close(w.queue) executed by Stop
    enqAtStop,        \* number of Enqueue calls completed when Stop began (-1: not begun)
    queueAtStop,      \* contents of the queue when Stop began
    \* ---- storage backends (file.go, redis.go, database.go)
    sut,              \* the backend the storage operations run on ("none": Writer runs)
    fileRecords,      \* FileStorage: the records of the file's lines, oldest first
    redisData,        \* RedisStorage: key -> stored record, as a set of [key, rec]
    redisIndex,       \* RedisStorage: members of the sorted set <prefix>index (score = key.ts)
    redisLive,        \* RedisStorage: the records written whose key has not expired, in order
    recordTTL,        \* RedisStorage: the record keys that carry the configured TTL
    indexTTL,         \* RedisStorage: the key <prefix>index carries the configured TTL
    removed,          \* RedisStorage: what the last Cleanup returned (-1: none yet)
    dbRows,           \* DatabaseStorage: the rows of the table, in insertion order
    qfilter,          \* the caller's *QueryFilter (Query normalizes it in place)
    qres,             \* the records the last Query returned, in order
    lastOp,           \* the last storage operation: "none", "write", "expire", "query", "cleanup"
    pages,            \* results of Query(L, 0), Query(L, L), Query(2L, 0), made in a row
    \* ---- Close of the backends (MultiStorage and the storages it holds)
    storages,         \* MultiStorage.storages: the kind of each entry ("nil": a nil entry)
    handleClosed,     \* per entry: its *os.File / *sql.DB / *redis.Client has been closed
    closeRets,        \* what the Close calls returned, in order: [0] MultiStorage, [i] entry i
    \* ---- NewDatabaseStorageFromDB (database.go:93-116)
    tableName,        \* config.TableName, a sequence of characters
    dbType,           \* the dbType argument ("none": no constructor call is modelled)
    sqlLog,           \* the table names of the statements sent to the database, in order
    newRet,           \* what the constructor returned: "none" (not yet), "ok", "err_type",
                      \*   "err_config", "err_sql"
    \* ---- the file backend's path (NewFileStorage, Rotate)
    pathKind,         \* what filePath names when NewFileStorage is called:
                      \*   "absent", "file", "symlink" (to a file elsewhere), "dir"
    opened,           \* what NewFileStorage did: "none" (not called), "path" (opened the
                      \*   file at filePath), "target" (opened the link's target), "err"
    rotated,          \* the files Rotate has renamed: suffix second -> records (<<>>: no file)
    clock,            \* the wall clock's second, the suffix Rotate would use now
    \* ---- lines of the file that hold no readable record; Query's error
    oddLines,         \* [pos, kind]: a line after the pos-th record of fileRecords that is
                      \*   "oversized" (longer than MaxRecordJSONSize) or "malformed"
    qerr,             \* the error the last file Query returned: "none" (no Query yet),
                      \*   "nil", "err"
    \* ---- the last call on the MultiStorage (Write, Query, Close)
    fanOp,            \* which method it was: "none", "write", "query", "close"
    fanVisited,       \* the entries whose method it called, in call order
    fanErrs,          \* the entries whose method returned an error
    fanRet,           \* what it returned: [src, err, n]: the entry whose result it is (0: of
                      \*   no entry), whether it is an error, the number of records in it
    entryRecords,     \* per entry: the number of records its backend holds
    \* ---- Logger (NewLogger, NewLoggerWithWriter, Log)
    logConfig,        \* [enabled, mask]: Config.Enabled, Config.MaskDestination; sink: where
                      \*   Log sends records: "writer" (l.writer), "storage" (l.storage),
                      \*   "none" (both nil)
    normIn,           \* <<f>>: the filter the caller's last f.Normalize() was called on, as
                      \*   it was before the call (<<>>: no such call)
    \* ---- FileStorage under concurrent callers, statement by statement
    fmu,              \* s.mu: the caller holding it (0: unlocked)
    fpc,              \* per caller: the statement it is at ("idle": in no method)
    fbuf,             \* the bytes buffered in s.writer: record numbers, 0 for "\n"
    fdisk,            \* the bytes of the file at filePath, likewise
    fhandle,          \* s.file: "open", "closed" ("none": no FileStorage)
    fobs,             \* the bytes the last Query read from the file
    wconfig,          \* WriterConfig of the Writer: [workers, queueSize]
    \* ---- RedisStorage under concurrent clients, command by command
    rcall,            \* per client: the method it is in and its local variables
    rret,             \* per client: what its last Write returned ("none": no Write yet)
    \* ---- FileStorage.Rotate failures
    frot,             \* the step at which a Rotate failed after closing s.file:
                      \*   "rename", "open" ("none": no such failure)
    handed            \* the Log calls that reached a sink: [given, got]: the record as the
                      \*   caller passed it, the record the sink was given

writerVars == <<queue, closed, cancelled, started, stopped, workers>>
stopVars == <<spc, sret, swait>>
backendVars == <<backend, storageCloses>>
obsVars == <<enq, enqueueFailedLog, writeLog, writeFailedLog, cancels, queueCloses,
             enqAtStop, queueAtStop>>
fileVars == <<fileRecords>>
redisVars == <<redisData, redisIndex, redisLive, recordTTL, indexTTL, removed>>
dbVars == <<dbRows>>
queryVars == <<qfilter, qres, lastOp, pages>>
closeVars == <<storages, handleClosed, closeRets>>
tableVars == <<tableName, dbType, sqlLog, newRet>>
fsVars == <<pathKind, opened, rotated, clock>>
lineVars == <<oddLines, qerr>>
fanVars == <<fanOp, fanVisited, fanErrs, fanRet, entryRecords>>
logVars == <<logConfig, handed>>
normVars == <<normIn>>
atomVars == <<fmu, fpc, fbuf, fdisk, fhandle, fobs>>
confVars == <<wconfig>>
stepVars == <<rcall, rret>>
rotVars == <<frot>>
lateVars == <<atomVars, confVars, stepVars, rotVars>>
extVars == <<closeVars, tableVars, fsVars, lineVars, fanVars, logVars, normVars, lateVars>>
coreStoreVars == <<sut, fileVars, redisVars, dbVars, queryVars>>
storeVars == <<coreStoreVars, extVars>>
vars == <<writerVars, stopVars, backendVars, obsVars, storeVars>>

\* ------------------------------------------------------------------ NewWriter
NewWriter ==
    /\ queue = <<>>
    /\ closed = FALSE
    /\ cancelled = FALSE
    /\ started = FALSE
    /\ stopped = FALSE
    /\ workers = EmptyBag
    /\ spc = [s \in Stoppers |-> "idle"]
    /\ sret = [s \in Stoppers |-> "none"]
    /\ swait = [s \in Stoppers |-> "none"]
    /\ backend \in BackendKinds
    /\ storageCloses = 0
    /\ enq = <<>>
    /\ enqueueFailedLog = <<>>
    /\ writeLog = <<>>
    /\ writeFailedLog = <<>>
    /\ cancels = 0
    /\ queueCloses = 0
    /\ enqAtStop = -1
    /\ queueAtStop = <<>>

NoFilter == [userID |-> "", startTime |-> 0, endTime |-> 0, limit |-> 0, offset |-> 0]

\* No MultiStorage is in use.
CloseIdle ==
    /\ storages = <<>>
    /\ handleClosed = <<>>
    /\ closeRets = <<>>

\* No relational backend is being constructed.
TableIdle ==
    /\ tableName = <<>>
    /\ dbType = "none"
    /\ sqlLog = <<>>
    /\ newRet = "none"

\* No file backend is constructed through NewFileStorage.
FsIdle ==
    /\ pathKind = "absent"
    /\ opened = "none"
    /\ rotated = <<>>
    /\ clock = 0

\* The file holds lines of readable records only.
LineIdle ==
    /\ oddLines = {}
    /\ qerr = "none"

\* No call has been made on a MultiStorage.
NoFanRet == [src |-> 0, err |-> FALSE, n |-> 0]
FanIdle ==
    /\ fanOp = "none"
    /\ fanVisited = <<>>
    /\ fanErrs = {}
    /\ fanRet = NoFanRet
    /\ entryRecords = <<>>

\* No Logger has been constructed.
LogIdle ==
    /\ logConfig = [enabled |-> FALSE, mask |-> FALSE, sink |-> "none"]
    /\ handed = {}

\* Normalize has not been called on its own.
NormIdle == normIn = <<>>

\* No caller is inside a method of a FileStorage.
AtomIdle ==
    /\ fmu = 0
    /\ fpc = <<>>
    /\ fbuf = <<>>
    /\ fdisk = <<>>
    /\ fhandle = "none"
    /\ fobs = <<>>

\* The Writer is configured with Workers = NumWorkers, QueueSize = QueueSize.
ConfIdle == wconfig = [workers |-> NumWorkers, queueSize |-> QueueSize]

\* No RedisStorage client is modelled command by command.
StepIdle == rcall = <<>> /\ rret = <<>>

\* No Rotate has failed.
RotIdle == frot = "none"

LateIdle == AtomIdle /\ ConfIdle /\ StepIdle /\ RotIdle

ExtIdle == CloseIdle /\ TableIdle /\ FsIdle /\ LineIdle /\ FanIdle /\ LogIdle /\ NormIdle /\ LateIdle

CoreEmpty ==
    /\ fileRecords = <<>>
    /\ redisData = {}
    /\ redisIndex = {}
    /\ redisLive = <<>>
    /\ recordTTL = {}
    /\ indexTTL = FALSE
    /\ removed = -1
    /\ dbRows = <<>>
    /\ qfilter = NoFilter
    /\ qres = <<>>
    /\ lastOp = "none"
    /\ pages = <<>>

EmptyStores == ExtIdle /\ CoreEmpty

Init == NewWriter /\ EmptyStores /\ sut = "none"

\* ------------------------------------------------------------------ backend
\* The Storage bound to the Writer, as the Writer sees it.
\*   "file": FileStorage.  Write takes s.mu, returns ctx.Err() at once when
\*           its context is done, else marshals, writes and flushes (I/O that
\*           may fail or block) and releases s.mu on return.  Close takes s.mu.
\*   "mock": mockStorage of the Writer's tests without a context-aware delay:
\*           Write ignores the context and may take any time; Close returns nil
\*           without waiting for anything.

\* s.mu of FileStorage is held from the entry of a Write that passed the
\* context check until that Write returns.
FileMuHeld ==
    /\ backend = "file"
    /\ \E x \in BagToSet(workers) : x.pc \in {"inWrite", "inDrainWrite"}

\* What a Write that has entered returns at once, without doing I/O
\* ("" when it goes on to the I/O).
WriteEntry(ctxDone) ==
    IF backend = "file" /\ ctxDone THEN "ctxErr" ELSE ""

\* What the I/O part of Write returns; `fault` is a failure of the backend
\* (marshal, write, flush; mockStorage.shouldError).
WriteResult(fault) ==
    IF fault THEN "ioErr" ELSE "ok"

\* Storage.Close: mockStorage.Close returns nil; FileStorage.Close returns the
\* error of os.File.Close, which fails on an already closed file.
StorageClose ==
    IF backend = "file" /\ storageCloses > 0 THEN "err" ELSE "nil"

\* ------------------------------------------------------------------ Start
\* Faulty variant: Start does not look at w.started.
Start_NoStartedCheck ==
    /\ workers' = workers (+) [x \in {[pc |-> "select", rec |-> 0]} |-> wconfig.workers]
    /\ started' = TRUE
    /\ UNCHANGED <<storeVars, queue, closed, cancelled, stopped, stopVars, backendVars, obsVars>>

Start ==
    IF started
    THEN UNCHANGED vars
    ELSE /\ workers' = [x \in {[pc |-> "select", rec |-> 0]} |-> wconfig.workers]
         /\ started' = TRUE
         /\ UNCHANGED <<storeVars, queue, closed, cancelled, stopped, stopVars, backendVars, obsVars>>

\* ------------------------------------------------------------------ Enqueue
\* The non-blocking send `select { case w.queue <- record: ... default: ... }`.
\* A send on a closed channel is always ready and panics; otherwise the send
\* succeeds when the buffer has room, and the default branch runs when not.
EnqueueOutcome ==
    IF closed THEN "panicked"
    ELSE IF Len(queue) < wconfig.queueSize THEN "accepted"
    ELSE "rejected"

\* Faulty variant: a full queue evicts its head to take the new record (head-of-line
\* eviction) while the caller is still told false.
Enqueue_EvictsHead ==
    /\ Len(enq) < MaxRecords
    /\ LET r == Len(enq) + 1
           out == EnqueueOutcome
       IN /\ enq' = Append(enq, out)
          /\ queue' = IF out = "accepted" THEN Append(queue, r)
                      ELSE IF out = "rejected" THEN Append(Tail(queue), r)
                      ELSE queue
          /\ enqueueFailedLog' =
                IF out = "rejected"
                THEN Append(enqueueFailedLog, r)
                ELSE enqueueFailedLog
    /\ UNCHANGED <<storeVars, closed, cancelled, started, stopped, workers, stopVars,
                   backendVars, writeLog, writeFailedLog, cancels, queueCloses,
                   enqAtStop, queueAtStop>>

Enqueue ==
    /\ Len(enq) < MaxRecords
    /\ LET r == Len(enq) + 1
           out == EnqueueOutcome
       IN /\ enq' = Append(enq, out)
          /\ queue' = IF out = "accepted" THEN Append(queue, r) ELSE queue
          /\ enqueueFailedLog' =
                IF out = "rejected"
                THEN Append(enqueueFailedLog, r)
                ELSE enqueueFailedLog
    /\ UNCHANGED <<storeVars, closed, cancelled, started, stopped, workers, stopVars, backendVars,
                   writeLog, writeFailedLog, cancels, queueCloses, enqAtStop,
                   queueAtStop>>

\* ------------------------------------------------------------------ worker
\* A worker goroutine is at one of: "select" (the outer select), "drain" (the
\* inner drain loop), "write" / "drainWrite" (in writeRecord, called from the
\* outer / inner loop, about to call storage.Write with record rec),
\* "inWrite" / "inDrainWrite" (inside storage.Write), "done" (returned,
\* wg.Done()).
At(pc) == [pc |-> pc, rec |-> 0]
Writing(pc, r) == [pc |-> pc, rec |-> r]
Move(from, to) == (workers (-) SetToBag({from})) (+) SetToBag({to})

\* The outer select of worker(): ctx.Done() and the receive are both
\* candidates; Go picks among the ready cases at random.
\* Faulty variant: the receive branch forgets to call writeRecord.
WorkerSelect_DropsRecord ==
    /\ BagIn(At("select"), workers)
    /\ \/ /\ cancelled
          /\ workers' = Move(At("select"), At("drain"))
          /\ UNCHANGED queue
       \/ /\ queue # <<>>
          /\ queue' = Tail(queue)
          /\ UNCHANGED workers
       \/ /\ queue = <<>> /\ closed
          /\ workers' = Move(At("select"), At("done"))
          /\ UNCHANGED queue
    /\ UNCHANGED <<storeVars, closed, cancelled, started, stopped, stopVars, backendVars, obsVars>>

\* Faulty variant: the receive takes the newest queued record.
WorkerSelect_TakesNewest ==
    /\ BagIn(At("select"), workers)
    /\ \/ /\ cancelled
          /\ workers' = Move(At("select"), At("drain"))
          /\ UNCHANGED queue
       \/ /\ queue # <<>>
          /\ workers' = Move(At("select"), Writing("write", queue[Len(queue)]))
          /\ queue' = SubSeq(queue, 1, Len(queue) - 1)
       \/ /\ queue = <<>> /\ closed
          /\ workers' = Move(At("select"), At("done"))
          /\ UNCHANGED queue
    /\ UNCHANGED <<storeVars, closed, cancelled, started, stopped, stopVars, backendVars, obsVars>>

WorkerSelect ==
    /\ BagIn(At("select"), workers)
    /\ \/ /\ cancelled
          /\ workers' = Move(At("select"), At("drain"))
          /\ UNCHANGED queue
       \/ /\ queue # <<>>
          /\ workers' = Move(At("select"), Writing("write", Head(queue)))
          /\ queue' = Tail(queue)
       \/ /\ queue = <<>> /\ closed
          /\ workers' = Move(At("select"), At("done"))
          /\ UNCHANGED queue
    /\ UNCHANGED <<storeVars, closed, cancelled, started, stopped, stopVars, backendVars, obsVars>>

\* The inner drain loop: receive while a record is queued; return on a closed
\* empty queue (!ok) and on an empty open queue (default).
\* Faulty variant: a worker that observes cancellation returns without draining.
WorkerDrain_ReturnsAtOnce ==
    /\ BagIn(At("drain"), workers)
    /\ workers' = Move(At("drain"), At("done"))
    /\ UNCHANGED <<storeVars, queue, closed, cancelled, started, stopped, stopVars,
                   backendVars, obsVars>>

WorkerDrain ==
    /\ BagIn(At("drain"), workers)
    /\ IF queue # <<>>
       THEN /\ workers' = Move(At("drain"), Writing("drainWrite", Head(queue)))
            /\ queue' = Tail(queue)
       ELSE /\ workers' = Move(At("drain"), At("done"))
            /\ UNCHANGED queue
    /\ UNCHANGED <<storeVars, closed, cancelled, started, stopped, stopVars, backendVars, obsVars>>

\* writeRecord: one call of storage.Write(w.ctx, record), in two steps (the
\* call and its return), since the Write of a backend may block on I/O.
\* The loop a worker returns to after writeRecord.
BackToLoop(x) == At(IF x.pc \in {"write", "inWrite"} THEN "select" ELSE "drain")

\* Faulty variant: the worker returns when Write fails.
WriteReturned_HaltsOnError(x, res) ==
    /\ writeLog' = Append(writeLog, [rec |-> x.rec, res |-> res])
    /\ writeFailedLog' =
          IF res # "ok"
          THEN Append(writeFailedLog, [rec |-> x.rec, err |-> res])
          ELSE writeFailedLog
    /\ workers' = Move(x, IF res # "ok" THEN At("done") ELSE BackToLoop(x))

\* writeRecord after storage.Write has returned res for the record of worker
\* x: the backend has seen the call; on error the onWriteFailed callback is
\* invoked (a log line when none is set); the worker returns to its loop.
WriteReturned(x, res) ==
    /\ writeLog' = Append(writeLog, [rec |-> x.rec, res |-> res])
    /\ writeFailedLog' =
          IF res # "ok"
          THEN Append(writeFailedLog, [rec |-> x.rec, err |-> res])
          ELSE writeFailedLog
    /\ workers' = Move(x, BackToLoop(x))

\* writeRecord calls storage.Write(w.ctx, record): FileStorage.Write waits for
\* s.mu, then either returns ctx.Err() at once or starts its I/O.
writeRecordCall ==
    \E x \in BagToSet(workers) :
       /\ x.pc \in {"write", "drainWrite"}
       /\ ~FileMuHeld
       /\ IF WriteEntry(cancelled) # ""
          THEN WriteReturned(x, WriteEntry(cancelled))
          ELSE /\ workers' = Move(x, Writing(IF x.pc = "write" THEN "inWrite"
                                             ELSE "inDrainWrite", x.rec))
               /\ UNCHANGED <<writeLog, writeFailedLog>>
       /\ UNCHANGED <<storeVars, queue, closed, cancelled, started, stopped, stopVars,
                      backendVars, enq, enqueueFailedLog, cancels, queueCloses,
                      enqAtStop, queueAtStop>>

\* storage.Write returns from its I/O.
writeRecordReturn ==
    \E x \in BagToSet(workers) :
       /\ x.pc \in {"inWrite", "inDrainWrite"}
       /\ \E fault \in BOOLEAN : WriteReturned(x, WriteResult(fault))
       /\ UNCHANGED <<storeVars, queue, closed, cancelled, started, stopped, stopVars,
                      backendVars, enq, enqueueFailedLog, cancels, queueCloses,
                      enqAtStop, queueAtStop>>

WorkerStep == WorkerSelect \/ WorkerDrain \/ writeRecordCall \/ writeRecordReturn

\* ------------------------------------------------------------------ Stop
\* Lines 103-109: under w.mu, return nil when not started or already stopped,
\* else mark stopped.
\* Faulty variant: Stop checks w.started but not w.stopped.
StopBegin_NoStoppedCheck(s) ==
    /\ spc[s] = "idle"
    /\ \A t \in Stoppers : t < s => spc[t] # "idle"
    /\ IF ~started
       THEN /\ spc' = [spc EXCEPT ![s] = "done"]
            /\ sret' = [sret EXCEPT ![s] = "nil"]
            /\ UNCHANGED <<stopped, enqAtStop, queueAtStop>>
       ELSE /\ stopped' = TRUE
            /\ spc' = [spc EXCEPT ![s] = "cancel"]
            /\ enqAtStop' = Len(enq)
            /\ queueAtStop' = queue
            /\ UNCHANGED sret
    /\ UNCHANGED <<storeVars, queue, closed, cancelled, started, workers, swait,
                   backendVars, enq, enqueueFailedLog, writeLog, writeFailedLog,
                   cancels, queueCloses>>

StopBegin(s) ==
    /\ spc[s] = "idle"
    /\ \A t \in Stoppers : t < s => spc[t] # "idle"   \* callers are interchangeable
    /\ IF ~started \/ stopped
       THEN /\ spc' = [spc EXCEPT ![s] = "done"]
            /\ sret' = [sret EXCEPT ![s] = "nil"]
            /\ UNCHANGED <<stopped, enqAtStop, queueAtStop>>
       ELSE /\ stopped' = TRUE
            /\ spc' = [spc EXCEPT ![s] = "cancel"]
            /\ enqAtStop' = Len(enq)
            /\ queueAtStop' = queue
            /\ UNCHANGED sret
    /\ UNCHANGED <<storeVars, queue, closed, cancelled, started, workers, swait, backendVars, enq,
                   enqueueFailedLog, writeLog, writeFailedLog, cancels, queueCloses>>

\* Line 114: w.cancel()
StopCancel(s) ==
    /\ spc[s] = "cancel"
    /\ cancelled' = TRUE
    /\ cancels' = cancels + 1
    /\ spc' = [spc EXCEPT ![s] = "close"]
    /\ UNCHANGED <<storeVars, queue, closed, started, stopped, workers, sret, swait, backendVars, enq,
                   enqueueFailedLog, writeLog, writeFailedLog, queueCloses,
                   enqAtStop, queueAtStop>>

\* Line 117: close(w.queue); closing a closed channel panics.
StopCloseQueue(s) ==
    /\ spc[s] = "close"
    /\ IF closed
       THEN /\ spc' = [spc EXCEPT ![s] = "done"]
            /\ sret' = [sret EXCEPT ![s] = "panic"]
            /\ UNCHANGED <<closed, queueCloses>>
       ELSE /\ closed' = TRUE
            /\ queueCloses' = queueCloses + 1
            /\ spc' = [spc EXCEPT ![s] = "wait"]
            /\ UNCHANGED sret
    /\ UNCHANGED <<storeVars, queue, cancelled, started, stopped, workers, swait, backendVars, enq,
                   enqueueFailedLog, writeLog, writeFailedLog, cancels,
                   enqAtStop, queueAtStop>>

\* Faulty variant: the wait reports that the workers finished without waiting
\* for them.
StopWait_DoesNotWait(s) ==
    /\ spc[s] = "wait"
    /\ \/ swait' = [swait EXCEPT ![s] = "done"]
       \/ swait' = [swait EXCEPT ![s] = "timeout"]
    /\ spc' = [spc EXCEPT ![s] = "closeStorage"]
    /\ UNCHANGED <<storeVars, writerVars, sret, backendVars, obsVars>>

\* w.wg.Wait() returns once every worker has run its deferred wg.Done().
WorkersDone == BagToSet(workers) \subseteq {At("done")}

\* Lines 120-132: select on done and on time.After(w.stopTimeout).
StopWait(s) ==
    /\ spc[s] = "wait"
    /\ \/ /\ WorkersDone
          /\ swait' = [swait EXCEPT ![s] = "done"]
       \/ swait' = [swait EXCEPT ![s] = "timeout"]
    /\ spc' = [spc EXCEPT ![s] = "closeStorage"]
    /\ UNCHANGED <<storeVars, writerVars, sret, backendVars, obsVars>>

\* Lines 135-139: return w.storage.Close(); FileStorage.Close waits for s.mu.
StopCloseStorage(s) ==
    /\ spc[s] = "closeStorage"
    /\ ~FileMuHeld
    /\ sret' = [sret EXCEPT ![s] = StorageClose]
    /\ storageCloses' = storageCloses + 1
    /\ spc' = [spc EXCEPT ![s] = "done"]
    /\ UNCHANGED <<storeVars, writerVars, swait, backend, obsVars>>

StopStep(s) ==
    StopCancel(s) \/ StopCloseQueue(s) \/ StopWait(s) \/ StopCloseStorage(s)

\* ------------------------------------------------------------------ system
Next ==
    \/ Start
    \/ Enqueue
    \/ WorkerSelect
    \/ WorkerDrain
    \/ writeRecordCall
    \/ writeRecordReturn
    \/ \E s \in Stoppers : StopBegin(s)
    \/ \E s \in Stoppers : StopCancel(s)
    \/ \E s \in Stoppers : StopCloseQueue(s)
    \/ \E s \in Stoppers : StopWait(s)
    \/ \E s \in Stoppers : StopCloseStorage(s)

Spec == Init /\ [][Next]_vars

\* The Writer with one caller of Stop.  A Stop call that finds the Writer not
\* started or already stopped returns nil and touches nothing of the Writer,
\* so further callers add no behaviour of the queue and the workers.
LiveNext ==
    \/ Start
    \/ Enqueue
    \/ WorkerSelect
    \/ WorkerDrain
    \/ writeRecordCall
    \/ writeRecordReturn
    \/ StopBegin(1)
    \/ StopCancel(1)
    \/ StopCloseQueue(1)
    \/ StopWait(1)
    \/ StopCloseStorage(1)

\* The Go scheduler runs every runnable goroutine: a worker that can take a
\* step eventually takes one.
LiveSpec == Init /\ [][LiveNext]_vars /\ WF_vars(WorkerStep)

\* The goroutine that called Stop keeps running and its timer fires; nothing
\* is assumed of the workers (a backend Write may block forever).
StopLiveSpec == Spec /\ \A s \in Stoppers : WF_vars(StopStep(s))

\* ================================================================== storage
\* The Storage backends: Write and Query of FileStorage, RedisStorage and
\* DatabaseStorage on records that carry a timestamp and the identifiers that
\* form the cache-store key.
MaxTs == 2           \* timestamps of the written records range over 1..MaxTs
MaxWrites == 3       \* number of Writes made to the backend under test

UserIDs == {"", "u1"}
IdOrder == <<"a", "u1">>  \* the non-empty identifiers in lexicographic order
EventTypes == {"login_success", "login_failed"}
Records == [ts : 1..MaxTs, eventType : EventTypes, eventID : {""}, challengeID : {""},
            userID : UserIDs]

DefaultLimit == 100
MaxLimit == 1000
Slack == 100
Filters == [userID : UserIDs, startTime : {0, MaxTs}, endTime : {0, 1},
            limit : {0, 1, 2}, offset : {-1, 1}]

\* Faulty variant: the limit has no upper cap.
Normalize_NoUpperCap(f) ==
    LET l1 == IF f.limit <= 0 THEN DefaultLimit ELSE f.limit
        o == IF f.offset < 0 THEN 0 ELSE f.offset
    IN [f EXCEPT !.limit = l1, !.offset = o]

\* QueryFilter.Normalize
Normalize(f) ==
    LET l1 == IF f.limit <= 0 THEN DefaultLimit ELSE f.limit
        l2 == IF l1 > MaxLimit THEN MaxLimit ELSE l1
        o == IF f.offset < 0 THEN 0 ELSE f.offset
    IN [f EXCEPT !.limit = l2, !.offset = o]

\* matchesFilter, on the fields the modelled records carry
matchesFilter(record, filter) ==
    /\ ~(filter.userID # "" /\ record.userID # filter.userID)
    /\ ~(filter.startTime > 0 /\ record.ts < filter.startTime)
    /\ ~(filter.endTime > 0 /\ record.ts > filter.endTime)

Min(a, b) == IF a < b THEN a ELSE b
Reverse(q) == [i \in 1..Len(q) |-> q[Len(q) + 1 - i]]
RECURSIVE Matching(_, _)
Matching(q, filter) ==
    IF q = <<>> THEN <<>>
    ELSE IF matchesFilter(Head(q), filter)
         THEN <<Head(q)>> \o Matching(Tail(q), filter)
         ELSE Matching(Tail(q), filter)

\* records[start:end] with start = offset, end = min(start+limit, len)
Page(q, filter) ==
    IF filter.offset >= Len(q) THEN <<>>
    ELSE SubSeq(q, filter.offset + 1, Min(filter.offset + filter.limit, Len(q)))

\* The orders a sort by timestamp descending may leave q in (ties are in no
\* defined order: sort.Slice is not stable, ORDER BY names one column).
ByTimestampDesc(q) ==
    LET n == Len(q)
        perms == {p \in [1..n -> 1..n] :
                     /\ \A i, j \in 1..n : i # j => p[i] # p[j]
                     /\ \A i \in 1..(n - 1) : q[p[i]].ts >= q[p[i + 1]].ts}
    IN {[i \in 1..n |-> q[p[i]]] : p \in perms}

\* ---- FileStorage
FileWrite(record) ==
    /\ sut = "file"
    /\ Len(fileRecords) < MaxWrites
    /\ fileRecords' = Append(fileRecords, record)
    /\ lastOp' = "write"
    /\ UNCHANGED <<writerVars, stopVars, backendVars, obsVars, extVars, sut, redisVars,
                   dbVars, qfilter, qres, pages>>

\* The loop `for i := len(allRecords) - 1; i >= 0; i--` of Query: the file's
\* records in reverse read order, filtered, offset skipped, limit kept.
FileQueryResult(filter) ==
    Page(Matching(Reverse(fileRecords), filter), filter)

\* Query: the scanner's buffer is capped at MaxRecordJSONSize, so on a longer
\* line scanner.Scan() stops with bufio.ErrTooLong and Query returns
\* "failed to read file" and no records (the len(line) > MaxRecordJSONSize
\* branch of the loop is never entered); a line that fails json.Unmarshal is
\* skipped.
FileQuery ==
    /\ sut = "file"
    /\ qfilter' = Normalize(qfilter)
    /\ IF \E l \in oddLines : l.kind = "oversized"
       THEN qres' = <<>> /\ qerr' = "err"
       ELSE qres' = FileQueryResult(Normalize(qfilter)) /\ qerr' = "nil"
    /\ lastOp' = "query"
    /\ UNCHANGED <<writerVars, stopVars, backendVars, obsVars, closeVars, tableVars, fsVars,
                   fanVars, logVars, normVars, lateVars, oddLines, sut, fileVars, redisVars, dbVars, pages>>

\* ---- RedisStorage
DiscRank(d) ==
    IF d = "" THEN 0 ELSE CHOOSE i \in 1..Len(IdOrder) : IdOrder[i] = d

\* The key of a record: <prefix><timestamp>[:<discriminator>]
RedisKey(record) ==
    [ts |-> record.ts,
     disc |-> IF record.eventID # "" THEN record.eventID
              ELSE IF record.challengeID # "" THEN record.challengeID
              ELSE record.userID]

\* Write: Set(key, data, s.ttl) stores the record under its key with the TTL;
\* ZAdd(<prefix>index, key) adds the key to the sorted set, creating the set,
\* without an expiry, when it does not exist.
RedisWrite(record) ==
    /\ sut = "redis"
    /\ Len(redisLive) < MaxWrites
    /\ LET key == RedisKey(record)
       IN /\ redisData' = {e \in redisData : e.key # key} \cup {[key |-> key, rec |-> record]}
          /\ recordTTL' = recordTTL \cup {key}
          /\ redisIndex' = redisIndex \cup {key}
          /\ indexTTL' = IF redisIndex = {} THEN FALSE ELSE indexTTL
    /\ redisLive' = Append(redisLive, record)
    /\ lastOp' = "write"
    /\ UNCHANGED <<writerVars, stopVars, backendVars, obsVars, extVars, sut, fileVars,
                   dbVars, qfilter, qres, pages, removed>>

\* A record key reaches its TTL; its index entry stays behind.
RedisExpire(key) ==
    /\ sut = "redis"
    /\ \E e \in redisData : e.key = key
    /\ key \in recordTTL
    /\ redisData' = {e \in redisData : e.key # key}
    /\ recordTTL' = recordTTL \ {key}
    /\ redisLive' = SelectSeq(redisLive, LAMBDA r : RedisKey(r) # key)
    /\ lastOp' = "expire"
    /\ UNCHANGED <<writerVars, stopVars, backendVars, obsVars, extVars, sut, fileVars,
                   redisIndex, indexTTL, removed, dbVars, qfilter, qres, pages>>

\* ZRevRangeByScore(min, max, offset 0, count): members by score descending,
\* equal scores by member descending; the first `count` of them.
KeyAbove(k1, k2) ==
    \/ k1.ts > k2.ts
    \/ k1.ts = k2.ts /\ DiscRank(k1.disc) > DiscRank(k2.disc)

ZRevRangeByScore(filter, count) ==
    LET inRange == {k \in redisIndex :
                       /\ filter.startTime > 0 => k.ts >= filter.startTime
                       /\ filter.endTime > 0 => k.ts <= filter.endTime}
    IN {k \in inRange : Cardinality({k2 \in inRange : KeyAbove(k2, k)}) < count}

RECURSIVE KeysToSeq(_)
KeysToSeq(S) ==
    IF S = {} THEN <<>>
    ELSE LET top == CHOOSE k \in S : \A k2 \in S \ {k} : KeyAbove(k, k2)
         IN <<top>> \o KeysToSeq(S \ {top})

RedisFetched(filter) ==
    LET keys == KeysToSeq(ZRevRangeByScore(filter, filter.limit + filter.offset + Slack))
        live == SelectSeq(keys, LAMBDA k : \E e \in redisData : e.key = k)
    IN [i \in 1..Len(live) |-> (CHOOSE e \in redisData : e.key = live[i]).rec]

RedisQuery ==
    /\ sut = "redis"
    /\ LET filter == Normalize(qfilter)
           keys == ZRevRangeByScore(filter, filter.limit + filter.offset + Slack)
       IN /\ qfilter' = filter
          /\ redisIndex' = redisIndex \ {k \in keys : ~\E e \in redisData : e.key = k}
          /\ \E sorted \in ByTimestampDesc(Matching(RedisFetched(filter), filter)) :
                qres' = Page(sorted, filter)
    /\ lastOp' = "query"
    /\ UNCHANGED <<writerVars, stopVars, backendVars, obsVars, extVars, sut, fileVars,
                   redisData, redisLive, recordTTL, indexTTL, removed, dbVars, pages>>

\* ---- DatabaseStorage
DatabaseWrite(record) ==
    /\ sut = "database"
    /\ Len(dbRows) < MaxWrites
    /\ dbRows' = Append(dbRows, record)
    /\ lastOp' = "write"
    /\ UNCHANGED <<writerVars, stopVars, backendVars, obsVars, extVars, sut, fileVars,
                   redisVars, qfilter, qres, pages>>

\* SELECT ... WHERE <set filters> ORDER BY timestamp DESC LIMIT ? OFFSET ?
DatabaseQuery ==
    /\ sut = "database"
    /\ LET filter == Normalize(qfilter)
       IN /\ qfilter' = filter
          /\ \E sorted \in ByTimestampDesc(Matching(dbRows, filter)) :
                qres' = Page(sorted, filter)
    /\ lastOp' = "query"
    /\ UNCHANGED <<writerVars, stopVars, backendVars, obsVars, extVars, sut, fileVars,
                   redisVars, dbVars, pages>>

StorageInit ==
    /\ NewWriter /\ backend = "mock"
    /\ ExtIdle
    /\ fileRecords = <<>>
    /\ redisData = {}
    /\ redisIndex = {}
    /\ redisLive = <<>>
    /\ recordTTL = {}
    /\ indexTTL = FALSE
    /\ removed = -1
    /\ dbRows = <<>>
    /\ qfilter \in Filters
    /\ qres = <<>>
    /\ lastOp = "none"
    /\ pages = <<>>
    /\ sut \in {"file", "redis", "database"}

StorageNext ==
    \/ \E r \in Records : FileWrite(r)
    \/ FileQuery
    \/ \E r \in Records : RedisWrite(r)
    \/ \E k \in redisIndex : RedisExpire(k)
    \/ RedisQuery
    \/ \E r \in Records : DatabaseWrite(r)
    \/ DatabaseQuery

StorageSpec == StorageInit /\ [][StorageNext]_vars

\* ---- cache-store keys, expiry and Cleanup: records that carry identifiers
MaxKeyTs == 1        \* timestamps of these records range over 1..MaxKeyTs
MaxKeyWrites == 2    \* number of unexpired Writes of these records
KeyIds == {"", "a"}
KeyRecords == [ts : 1..MaxKeyTs, eventType : EventTypes, eventID : KeyIds,
               challengeID : KeyIds, userID : KeyIds]

\* Faulty variant: Cleanup removes every member of the index.
RedisCleanup_RemovesAll ==
    /\ sut = "redis"
    /\ redisIndex' = {}
    /\ removed' = Cardinality(redisIndex)
    /\ lastOp' = "cleanup"
    /\ UNCHANGED <<writerVars, stopVars, backendVars, obsVars, extVars, sut, fileVars,
                   redisData, redisLive, recordTTL, indexTTL, dbVars, qfilter, qres, pages>>

\* Cleanup: ZRange of the whole index, Exists of every member, ZRem of the
\* members whose key does not exist; returns the number of ZRems.
RedisCleanup ==
    /\ sut = "redis"
    /\ LET stale == {k \in redisIndex : ~\E e \in redisData : e.key = k}
       IN /\ redisIndex' = redisIndex \ stale
          /\ removed' = Cardinality(stale)
    /\ lastOp' = "cleanup"
    /\ UNCHANGED <<writerVars, stopVars, backendVars, obsVars, extVars, sut, fileVars,
                   redisData, redisLive, recordTTL, indexTTL, dbVars, qfilter, qres, pages>>

RedisInit ==
    /\ NewWriter /\ backend = "mock"
    /\ EmptyStores
    /\ sut = "redis"

RedisNext ==
    \/ \E r \in KeyRecords : Len(redisLive) < MaxKeyWrites /\ RedisWrite(r)
    \/ \E k \in redisIndex : RedisExpire(k)
    \/ RedisQuery
    \/ RedisCleanup

RedisSpec == RedisInit /\ [][RedisNext]_vars

\* Cleanup among Writes, expiries and Queries of records of one event type
\* whose keys come from the event id or from the timestamp alone.
CleanupRecords ==
    {r \in KeyRecords : r.eventType = "login_success" /\ r.challengeID = "" /\ r.userID = ""}

CleanupNext ==
    \/ \E r \in CleanupRecords : Len(redisLive) < MaxKeyWrites /\ RedisWrite(r)
    \/ \E k \in redisIndex : RedisExpire(k)
    \/ RedisQuery
    \/ RedisCleanup

CleanupSpec == RedisInit /\ [][CleanupNext]_vars

\* ---- pagination: a caller that makes Query(limit L, offset 0),
\* Query(limit L, offset L) and Query(limit 2L, offset 0) in a row, each with
\* a fresh filter carrying the predicates of qfilter.
MaxPage == 2         \* page sizes L range over 1..MaxPage

PageFilter(l, o) == [qfilter EXCEPT !.limit = l, !.offset = o]

\* The three results FileStorage.Query gives.
FilePages(L) ==
    {<<FileQueryResult(Normalize(PageFilter(L, 0))),
       FileQueryResult(Normalize(PageFilter(L, L))),
       FileQueryResult(Normalize(PageFilter(2 * L, 0)))>>}

\* DatabaseStorage.Query: each SELECT orders rows of equal timestamp as the
\* database engine pleases.
DatabasePages(L) ==
    LET f1 == Normalize(PageFilter(L, 0))
        f2 == Normalize(PageFilter(L, L))
        f12 == Normalize(PageFilter(2 * L, 0))
        sorts == ByTimestampDesc(Matching(dbRows, f1))
    IN {<<Page(s1, f1), Page(s2, f2), Page(s12, f12)>> :
           s1 \in sorts, s2 \in sorts, s12 \in sorts}

\* RedisStorage.Query: sort.Slice orders records of equal timestamp in some
\* way that is a function of the slice it is given.
RedisPages(L) ==
    LET f1 == Normalize(PageFilter(L, 0))
        f2 == Normalize(PageFilter(L, L))
        f12 == Normalize(PageFilter(2 * L, 0))
        in1 == Matching(RedisFetched(f1), f1)
        in2 == Matching(RedisFetched(f2), f2)
        in12 == Matching(RedisFetched(f12), f12)
    IN {<<Page(s1, f1), Page(s2, f2), Page(s12, f12)>> :
           <<s1, s2, s12>> \in
              {t \in ByTimestampDesc(in1) \X ByTimestampDesc(in2) \X ByTimestampDesc(in12) :
                  /\ in1 = in2 => t[1] = t[2]
                  /\ in1 = in12 => t[1] = t[3]
                  /\ in2 = in12 => t[2] = t[3]}}

Paginate ==
    /\ \E L \in 1..MaxPage :
          pages' \in (IF sut = "file" THEN FilePages(L)
                      ELSE IF sut = "database" THEN DatabasePages(L)
                      ELSE RedisPages(L))
    /\ redisIndex' =
          IF sut = "redis"
          THEN redisIndex \ {k \in redisIndex : ~\E e \in redisData : e.key = k}
          ELSE redisIndex
    /\ lastOp' = "query"
    /\ UNCHANGED <<writerVars, stopVars, backendVars, obsVars, extVars, sut, fileVars,
                   redisData, redisLive, recordTTL, indexTTL, removed, dbVars, qfilter, qres>>

PageInit ==
    /\ ExtIdle
    /\ NewWriter /\ backend = "mock"
    /\ fileRecords = <<>>
    /\ redisData = {}
    /\ redisIndex = {}
    /\ redisLive = <<>>
    /\ recordTTL = {}
    /\ indexTTL = FALSE
    /\ removed = -1
    /\ dbRows = <<>>
    /\ qfilter \in {[f EXCEPT !.limit = 0, !.offset = 0] : f \in {g \in Filters : g.endTime = 0}}
    /\ qres = <<>>
    /\ lastOp = "none"
    /\ pages = <<>>
    /\ sut \in {"file", "redis", "database"}

PageNext ==
    \/ \E r \in Records : FileWrite(r)
    \/ \E r \in Records : RedisWrite(r)
    \/ \E k \in redisIndex : RedisExpire(k)
    \/ \E r \in Records : DatabaseWrite(r)
    \/ Paginate

PageSpec == PageInit /\ [][PageNext]_vars

\* ---- Close of every backend, directly and through a MultiStorage
NumStorages == 2     \* entries of MultiStorage.storages
MaxCloses == 2       \* Close calls a caller makes on one storage

StorageKinds == {"file", "database", "redis", "noop", "nil"}
CloseResults == {"nil", "err"}

\* Faulty variant: the relational backend fails on a closed handle too.
CloseOutcomes_DatabaseFails(kind, wasClosed) ==
    CASE kind = "file" -> IF wasClosed THEN {"err"} ELSE {"nil"}
      [] kind = "database" -> IF wasClosed THEN {"err"} ELSE {"nil"}
      [] kind = "redis" -> IF wasClosed THEN CloseResults ELSE {"nil"}
      [] kind = "noop" -> {"nil"}

\* What Close of a storage of this kind returns, by whether its handle has
\* been closed before.
\*   file:     s.file stays set after Close, so a later Close calls
\*             (*os.File).Close again, which returns os.ErrClosed.
\*   database: (*sql.DB).Close returns nil when the DB is already closed.
\*   redis:    returns what (*redis.Client).Close returns; for a closed client
\*             that is the client library's choice.
\*   noop:     nil.
CloseOutcomes(kind, wasClosed) ==
    CASE kind = "file" -> IF wasClosed THEN {"err"} ELSE {"nil"}
      [] kind = "database" -> {"nil"}
      [] kind = "redis" -> IF wasClosed THEN CloseResults ELSE {"nil"}
      [] kind = "noop" -> {"nil"}

closeOthers == <<writerVars, stopVars, backendVars, obsVars, coreStoreVars, tableVars, fsVars,
                 lineVars, logVars, normVars, lateVars>>

\* The non-nil entries of MultiStorage.storages, in order.
NonNil == SelectSeq([i \in DOMAIN storages |-> i], LAMBDA i : storages[i] # "nil")
FirstOf(S) == CHOOSE i \in S : \A j \in S : i <= j
FirstErr(errs) == IF errs = {} THEN NoFanRet ELSE [src |-> FirstOf(errs), err |-> TRUE, n |-> 0]

\* A caller closes entry i itself (FileStorage.Close, DatabaseStorage.Close,
\* RedisStorage.Close or NoopStorage.Close).
BackendClose(i) ==
    /\ storages[i] # "nil"
    /\ Len(closeRets[i]) < MaxCloses
    /\ \E ret \in CloseOutcomes(storages[i], handleClosed[i]) :
           closeRets' = [closeRets EXCEPT ![i] = Append(@, ret)]
    /\ handleClosed' = [handleClosed EXCEPT ![i] = TRUE]
    /\ UNCHANGED <<storages, closeOthers, fanVars>>

\* MultiStorage.Close: Close of every non-nil entry in order; returns the
\* first error.
MultiClose ==
    /\ Len(closeRets[0]) < MaxCloses
    /\ \E rets \in [DOMAIN storages -> CloseResults] :
          /\ \A i \in DOMAIN storages :
                 IF storages[i] = "nil" THEN rets[i] = "nil"
                 ELSE rets[i] \in CloseOutcomes(storages[i], handleClosed[i])
          /\ LET firstErr == IF \E i \in DOMAIN storages : rets[i] = "err"
                              THEN "err" ELSE "nil"
             IN closeRets' = [i \in DOMAIN closeRets |->
                                 IF i = 0 THEN Append(closeRets[0], firstErr)
                                 ELSE IF storages[i] = "nil" THEN closeRets[i]
                                 ELSE Append(closeRets[i], rets[i])]
          /\ fanErrs' = {i \in DOMAIN storages : rets[i] = "err"}
          /\ fanRet' = FirstErr({i \in DOMAIN storages : rets[i] = "err"})
    /\ handleClosed' = [i \in DOMAIN storages |-> handleClosed[i] \/ storages[i] # "nil"]
    /\ fanOp' = "close"
    /\ fanVisited' = NonNil
    /\ UNCHANGED <<storages, entryRecords, closeOthers>>

\* NewMultiStorage(storages...) over freshly constructed backends.
CloseInit ==
    /\ NewWriter /\ backend = "mock"
    /\ sut = "none"
    /\ CoreEmpty
    /\ TableIdle /\ FsIdle /\ LineIdle /\ LogIdle /\ NormIdle /\ LateIdle
    /\ fanOp = "none" /\ fanVisited = <<>> /\ fanErrs = {} /\ fanRet = NoFanRet
    /\ entryRecords = [i \in 1..NumStorages |-> 0]
    /\ storages \in [1..NumStorages -> StorageKinds]
    /\ handleClosed = [i \in 1..NumStorages |-> FALSE]
    /\ closeRets = [i \in 0..NumStorages |-> <<>>]

CloseNext ==
    \/ \E i \in DOMAIN storages : BackendClose(i)
    \/ MultiClose

CloseSpec == CloseInit /\ [][CloseNext]_vars

\* ---- Write and Query through a MultiStorage
MaxFanWrites == 2    \* records one backend of the MultiStorage holds

\* What Write and Query of an entry's backend may return: the no-op backend
\* always succeeds; a file or relational backend whose handle is closed
\* fails to write; any other call may succeed or fail (I/O).
WriteFails(kind, wasClosed) ==
    IF kind = "noop" THEN {FALSE}
    ELSE IF wasClosed /\ kind \in {"file", "database"} THEN {TRUE}
    ELSE BOOLEAN
QueryFails(kind) == IF kind = "noop" THEN {FALSE} ELSE BOOLEAN

\* Faulty variant: Write returns at the first error.
MultiWrite_StopsAtFirstError ==
    /\ \A i \in DOMAIN storages : entryRecords[i] < MaxFanWrites
    /\ \E errs \in SUBSET {i \in DOMAIN storages : storages[i] # "nil"} :
          /\ \A i \in DOMAIN storages :
                 storages[i] # "nil" => (i \in errs) \in WriteFails(storages[i], handleClosed[i])
          /\ LET called == IF errs = {} THEN NonNil
                            ELSE SelectSeq(NonNil, LAMBDA i : i <= FirstOf(errs))
             IN /\ fanVisited' = called
                /\ fanErrs' = IF errs = {} THEN {} ELSE {FirstOf(errs)}
                /\ entryRecords' = [i \in DOMAIN storages |->
                       IF storages[i] \notin {"nil", "noop"} /\ i \notin errs
                          /\ (errs = {} \/ i < FirstOf(errs))
                       THEN entryRecords[i] + 1 ELSE entryRecords[i]]
          /\ fanRet' = FirstErr(errs)
    /\ fanOp' = "write"
    /\ UNCHANGED <<closeVars, closeOthers>>

\* MultiStorage.Write: Write of every non-nil entry in order; returns the
\* first error.
MultiWrite ==
    /\ \A i \in DOMAIN storages : entryRecords[i] < MaxFanWrites
    /\ \E errs \in SUBSET {i \in DOMAIN storages : storages[i] # "nil"} :
          /\ \A i \in DOMAIN storages :
                 storages[i] # "nil" => (i \in errs) \in WriteFails(storages[i], handleClosed[i])
          /\ fanVisited' = NonNil
          /\ fanErrs' = errs
          /\ entryRecords' = [i \in DOMAIN storages |->
                 IF storages[i] \notin {"nil", "noop"} /\ i \notin errs
                 THEN entryRecords[i] + 1 ELSE entryRecords[i]]
          /\ fanRet' = FirstErr(errs)
    /\ fanOp' = "write"
    /\ UNCHANGED <<closeVars, closeOthers>>

\* Faulty variant: Query goes on to the next entry when one fails.
MultiQuery_SkipsFailing ==
    /\ fanOp' = "query"
    /\ \E errs \in SUBSET {i \in DOMAIN storages : storages[i] # "nil"} :
          /\ \A i \in DOMAIN storages :
                 storages[i] # "nil" => (i \in errs) \in QueryFails(storages[i])
          /\ LET good == {i \in DOMAIN storages : storages[i] # "nil" /\ i \notin errs}
             IN IF good = {}
                THEN /\ fanVisited' = NonNil
                     /\ fanErrs' = errs
                     /\ fanRet' = [src |-> 0, err |-> TRUE, n |-> 0]
                ELSE /\ fanVisited' = SelectSeq(NonNil, LAMBDA i : i <= FirstOf(good))
                     /\ fanErrs' = {i \in errs : i < FirstOf(good)}
                     /\ fanRet' = [src |-> FirstOf(good), err |-> FALSE,
                                   n |-> entryRecords[FirstOf(good)]]
    /\ UNCHANGED <<entryRecords, closeVars, closeOthers>>

\* MultiStorage.Query: the Query of the first non-nil entry, whatever it
\* returns; "no storage configured" when there is none.
MultiQuery ==
    /\ fanOp' = "query"
    /\ IF NonNil = <<>>
       THEN /\ fanVisited' = <<>>
            /\ fanErrs' = {}
            /\ fanRet' = [src |-> 0, err |-> TRUE, n |-> 0]
       ELSE LET first == NonNil[1]
            IN \E failed \in QueryFails(storages[first]) :
                  /\ fanVisited' = <<first>>
                  /\ fanErrs' = IF failed THEN {first} ELSE {}
                  /\ fanRet' = [src |-> first, err |-> failed,
                                n |-> IF failed THEN 0 ELSE entryRecords[first]]
    /\ UNCHANGED <<entryRecords, closeVars, closeOthers>>

FanNext ==
    \/ MultiWrite
    \/ MultiQuery
    \/ MultiClose

FanSpec == CloseInit /\ [][FanNext]_vars

\* ---- construction of the relational backend
MaxNameLen == 3      \* table names have up to MaxNameLen characters

\* Characters of a table name: a letter, a digit, the underscore, and three
\* characters of "bad; drop table x" and "audit-logs" that no identifier has.
NameChars == {"a", "7", "_", ";", " ", "-"}
IdentChars == {"a", "7", "_"}

RECURSIVE SeqsUpTo(_, _)
SeqsUpTo(S, n) ==
    IF n = 0 THEN {<<>>}
    ELSE LET shorter == SeqsUpTo(S, n - 1)
         IN shorter \cup {Append(q, c) : q \in {x \in shorter : Len(x) = n - 1}, c \in S}

TableNames == SeqsUpTo(NameChars, MaxNameLen)
DBTypes == {"postgres", "mysql", "sqlite", "oracle"}

\* The name is an identifier: the database parses "CREATE TABLE IF NOT EXISTS
\* <name> (...)" as one statement about the table <name>.
IsIdentifier(name) == name # <<>> /\ \A i \in DOMAIN name : name[i] \in IdentChars

\* createTable: Sprintf of the table name into the CREATE TABLE and CREATE
\* INDEX statements, sent with ExecContext.  With an identifier the statements
\* succeed; with any other text the outcome is the database's (a syntax
\* error, or success of whatever statements the text forms).
createTableResults(name) == IF IsIdentifier(name) THEN {"ok"} ELSE {"ok", "err_sql"}

tableOthers == <<writerVars, stopVars, backendVars, obsVars, coreStoreVars, closeVars, fsVars,
                 lineVars, fanVars, logVars, normVars, lateVars>>

\* NewDatabaseStorageFromDB(db, dbType, config): the dbType check, then
\* createTable with config.TableName as it is.
NewDatabaseStorageFromDB ==
    /\ dbType # "none" /\ newRet = "none"
    /\ IF dbType \notin {"postgres", "mysql", "sqlite"}
       THEN /\ newRet' = "err_type"
            /\ UNCHANGED sqlLog
       ELSE /\ sqlLog' = Append(sqlLog, tableName)
            /\ newRet' \in createTableResults(tableName)
    /\ UNCHANGED <<tableName, dbType, tableOthers>>

TableInit ==
    /\ NewWriter /\ backend = "mock"
    /\ sut = "none"
    /\ CoreEmpty
    /\ CloseIdle /\ FsIdle /\ LineIdle /\ FanIdle /\ LogIdle /\ NormIdle /\ LateIdle
    /\ tableName \in TableNames
    /\ dbType \in DBTypes
    /\ sqlLog = <<>>
    /\ newRet = "none"

TableNext == NewDatabaseStorageFromDB

TableSpec == TableInit /\ [][TableNext]_vars

\* ---- the file backend on its path: NewFileStorage, Write, Query, Rotate
MaxClock == 2        \* the clock's seconds range over 1..MaxClock
MaxFileWrites == 2   \* records in the current file

PathKinds == {"absent", "file", "symlink", "dir"}
FileRecordSet == {r \in Records : r.eventType = "login_success" /\ r.userID = "u1"}

fsOthers == <<writerVars, stopVars, backendVars, obsVars, closeVars, tableVars, lineVars,
              fanVars, logVars, normVars, lateVars, sut, redisVars, dbVars, qfilter, qres, pages>>

\* NewFileStorage(filePath): MkdirAll of the directory, then
\* os.OpenFile(filePath, O_APPEND|O_CREATE|O_WRONLY, 0644).  OpenFile follows
\* a symbolic link and opens (creating it if need be) the link's target; it
\* fails on a directory.
NewFileStorage ==
    /\ sut = "file" /\ opened = "none"
    /\ opened' = CASE pathKind = "symlink" -> "target"
                    [] pathKind = "dir" -> "err"
                    [] OTHER -> "path"
    /\ lastOp' = "open"
    /\ UNCHANGED <<pathKind, rotated, clock, fileRecords, fsOthers>>

IsOpen == opened \in {"path", "target"}

\* Rotate, under s.mu: Flush, Close, os.Rename(filePath, filePath + "." +
\* time.Now().Format("20060102-150405")), which replaces a file already at
\* that name, then OpenFile of a fresh file at filePath.
Rotate ==
    /\ sut = "file" /\ IsOpen
    /\ rotated' = [rotated EXCEPT ![clock] = fileRecords]
    /\ fileRecords' = <<>>
    /\ opened' = "path"
    /\ lastOp' = "rotate"
    /\ UNCHANGED <<pathKind, clock, fsOthers>>

\* A second passes.
Tick ==
    /\ sut = "file" /\ clock < MaxClock
    /\ clock' = clock + 1
    /\ lastOp' = "tick"
    /\ UNCHANGED <<pathKind, opened, rotated, fileRecords, fsOthers>>

FsInit ==
    /\ NewWriter /\ backend = "mock"
    /\ sut = "file"
    /\ CoreEmpty
    /\ CloseIdle /\ TableIdle /\ LineIdle /\ FanIdle /\ LogIdle /\ NormIdle /\ LateIdle
    /\ pathKind \in PathKinds
    /\ opened = "none"
    /\ rotated = [c \in 1..MaxClock |-> <<>>]
    /\ clock = 1

FsNext ==
    \/ NewFileStorage
    \/ \E r \in FileRecordSet : IsOpen /\ Len(fileRecords) < MaxFileWrites /\ FileWrite(r)
    \/ IsOpen /\ FileQuery
    \/ Rotate
    \/ Tick

FsSpec == FsInit /\ [][FsNext]_vars

\* ---- the file backend over a file with lines that hold no readable record
LineFilters == {f \in Filters : f.userID = "" /\ f.startTime = 0}

lineOthers == <<writerVars, stopVars, backendVars, obsVars, closeVars, tableVars, fsVars,
                fanVars, logVars, normVars, lateVars, sut, fileVars, redisVars, dbVars, qfilter, qres, pages>>

\* Write of a record whose JSON is longer than MaxRecordJSONSize: Write has
\* no size check, appends the line, flushes and returns nil.
FileWriteLarge ==
    /\ sut = "file"
    /\ oddLines' = oddLines \cup {[pos |-> Len(fileRecords), kind |-> "oversized"]}
    /\ lastOp' = "write"
    /\ UNCHANGED <<qerr, lineOthers>>

\* A line that is no JSON record gets into the file (a torn or foreign write).
MalformedLine ==
    /\ sut = "file"
    /\ oddLines' = oddLines \cup {[pos |-> Len(fileRecords), kind |-> "malformed"]}
    /\ lastOp' = "foreign"
    /\ UNCHANGED <<qerr, lineOthers>>

\* The caller builds the filter of its next Query.
NewFilter(f) ==
    /\ qfilter' = f
    /\ lastOp' = "filter"
    /\ UNCHANGED <<writerVars, stopVars, backendVars, obsVars, extVars, sut, fileVars,
                   redisVars, dbVars, qres, pages>>

LineInit ==
    /\ NewWriter /\ backend = "mock"
    /\ sut = "file"
    /\ CoreEmpty
    /\ CloseIdle /\ TableIdle /\ FsIdle /\ LineIdle /\ FanIdle /\ LogIdle /\ NormIdle /\ LateIdle

LineNext ==
    \/ \E r \in FileRecordSet : Len(fileRecords) < MaxFileWrites /\ FileWrite(r)
    \/ FileWriteLarge
    \/ MalformedLine
    \/ \E f \in LineFilters : NewFilter(f)
    \/ FileQuery

LineSpec == LineInit /\ [][LineNext]_vars

\* ================================================================== claims
Accepted(r) == r <= Len(enq) /\ enq[r] = "accepted"
WriteCount(r) == Cardinality({i \in DOMAIN writeLog : writeLog[i].rec = r})
Written(r) == WriteCount(r) > 0
Persisted(r) == \E i \in DOMAIN writeLog : writeLog[i] = [rec |-> r, res |-> "ok"]
DoneWorkers == CopiesIn(At("done"), workers)
InWrite == \E x \in BagToSet(workers) : x.pc \in {"inWrite", "inDrainWrite"}
\* a Stop call that passed the started/stopped check has returned, and its
\* wait ended because every worker had finished
DrainedStopReturned == \E s \in Stoppers : spc[s] = "done" /\ swait[s] = "done"

\* C1: on a started Writer that is not being stopped, every record whose
\* Enqueue returned true is eventually passed to the backend's Write (under
\* fair scheduling of the workers): no record stays accepted and unwritten
\* for ever while the Writer runs.
C1_AcceptedEventuallyWritten ==
    \A r \in RecordIds :
        []<>((Accepted(r) /\ started /\ ~stopped) => Written(r))

C1_Witness ==
    /\ started /\ ~stopped
    /\ \A r \in RecordIds : Accepted(r) /\ Written(r)

\* C2: when Stop's wait ends because the workers finished, every record that
\* was queued when Stop began has been passed to Write by the time Stop
\* returns; and a worker returns only while the queue is empty.
C2_DrainOnStop ==
    /\ [](DrainedStopReturned =>
             \A i \in DOMAIN queueAtStop : Written(queueAtStop[i]))
    /\ [][DoneWorkers' > DoneWorkers => queue = <<>>]_vars

C2_Witness ==
    /\ DrainedStopReturned
    /\ queueAtStop # <<>>
    /\ \E i \in DOMAIN writeLog : writeLog[i].rec = queueAtStop[1]

\* C3: every Enqueue call made after Stop has begun returns false (it neither
\* returns true nor panics).
C3_EnqueueAfterStopReturnsFalse ==
    \A k \in DOMAIN enq : (enqAtStop >= 0 /\ k > enqAtStop) => enq[k] = "rejected"

\* An Enqueue call made after Stop had returned panicked on the closed queue.
C3_Witness ==
    /\ enqAtStop >= 0
    /\ \E s \in Stoppers : spc[s] = "done" /\ swait[s] # "none"
    /\ enq # <<>> /\ Len(enq) > enqAtStop
    /\ enq[Len(enq)] = "panicked"

\* C4: an Enqueue call that finds the queue at capacity returns false, invokes
\* onEnqueueFailed once with the rejected record and leaves the queue as it was.
C4_FullQueueRejects ==
    [][(Len(enq') = Len(enq) + 1 /\ Len(queue) = QueueSize) =>
          /\ enq'[Len(enq')] = "rejected"
          /\ queue' = queue
          /\ enqueueFailedLog' = Append(enqueueFailedLog, Len(enq'))]_vars

\* The last Enqueue call found the queue at capacity and closed, and panicked.
C4_Witness ==
    /\ Len(queue) = QueueSize
    /\ closed
    /\ enq # <<>> /\ enq[Len(enq)] = "panicked"
    /\ enqueueFailedLog = <<>>

\* C5: Write is called at most once per record and only for records whose
\* Enqueue returned true; once a Stop of the started Writer has returned after
\* the workers finished, every record accepted before Stop began has been
\* received exactly once (QueueSize=1: A accepted, B rejected, backend holds
\* A alone).
C5_AtMostOnceNeverRejected ==
    /\ \A r \in RecordIds : WriteCount(r) <= 1
    /\ \A r \in RecordIds : Written(r) => Accepted(r)
    /\ DrainedStopReturned =>
          \A r \in 1..enqAtStop : Accepted(r) => WriteCount(r) = 1

C5_Witness ==
    /\ DrainedStopReturned
    /\ enq = <<"accepted", "rejected">>
    /\ enqAtStop = 2
    /\ enqueueFailedLog = <<2>>
    /\ WriteCount(1) = 1 /\ WriteCount(2) = 0

\* C6: after Stop has returned (the workers having finished) every record
\* accepted before Stop began is persisted in the backend, absent I/O failures
\* of the backend, for any backend.
C6_AllEnqueuedPersisted ==
    (DrainedStopReturned /\ \A i \in DOMAIN writeLog : writeLog[i].res # "ioErr") =>
        \A r \in 1..enqAtStop : Accepted(r) => Persisted(r)

\* Stop has returned after the workers finished, and a record accepted before
\* Stop began was refused by FileStorage.Write with the context's error.
C6_Witness ==
    /\ DrainedStopReturned
    /\ backend = "file"
    /\ \E r \in 1..enqAtStop :
          /\ Accepted(r)
          /\ \E i \in DOMAIN writeLog : writeLog[i] = [rec |-> r, res |-> "ctxErr"]
          /\ ~Persisted(r)

\* C7: Stop is idempotent: every Stop call returns nil, a Stop call on a
\* started Writer leaves stopped = true for good, and cancel, close(queue) and
\* the backend's Close are each performed at most once, exactly once when all
\* calls have returned.
C7_StopIdempotent ==
    /\ [](/\ cancels <= 1 /\ queueCloses <= 1 /\ storageCloses <= 1
          /\ \A s \in Stoppers : spc[s] = "done" => sret[s] = "nil"
          /\ (stopped /\ \A s \in Stoppers : spc[s] = "done") =>
                (cancels = 1 /\ queueCloses = 1 /\ storageCloses = 1))
    /\ [][\A s \in Stoppers :
             (spc[s] = "idle" /\ spc'[s] # "idle" /\ started) => stopped']_vars
    /\ [][stopped => stopped']_vars

C7_Witness ==
    /\ \A s \in Stoppers : spc[s] = "done" /\ sret[s] = "nil"
    /\ swait[1] # "none"
    /\ stopped /\ storageCloses = 1

\* C8: a Stop call that has begun always returns, also when a worker never
\* leaves the backend's Write; on the timeout path the backend has been closed
\* and Stop returns nil.
C8_StopTerminates ==
    /\ \A s \in Stoppers : (spc[s] \notin {"idle", "done"}) ~> (spc[s] = "done")
    /\ [](\A s \in Stoppers :
             (spc[s] = "done" /\ swait[s] = "timeout") =>
                 (storageCloses = 1 /\ sret[s] = "nil"))

\* The wait of a Stop call has timed out while a worker is inside
\* FileStorage.Write, holding the mutex that FileStorage.Close waits for.
C8_Witness ==
    /\ \E s \in Stoppers : spc[s] = "closeStorage" /\ swait[s] = "timeout"
    /\ FileMuHeld

\* C9: each failed Write is reported by exactly one onWriteFailed call with
\* that record and error, no record is written twice, a Write never makes a
\* worker return, and records accepted around a failure are still written.
FailedWrites == SelectSeq(writeLog, LAMBDA e : e.res # "ok")

C9_FailedWriteDoesNotHalt ==
    /\ [](/\ writeFailedLog = [i \in DOMAIN FailedWrites |->
                                  [rec |-> FailedWrites[i].rec, err |-> FailedWrites[i].res]]
          /\ \A r \in RecordIds : WriteCount(r) <= 1)
    /\ [][Len(writeLog') > Len(writeLog) => DoneWorkers' = DoneWorkers]_vars
    /\ \A r \in RecordIds :
          []<>((writeFailedLog # <<>> /\ Accepted(r) /\ started /\ ~stopped)
                  => Written(r))

C9_Witness ==
    /\ Len(writeLog) = 2
    /\ writeLog[1].res = "ioErr"
    /\ writeFailedLog[1] = [rec |-> writeLog[1].rec, err |-> "ioErr"]
    /\ ~stopped

\* C10: the records a Query returns are in non-increasing timestamp order, on
\* every backend and whatever the order of the Writes' timestamps.
C10_QueryNewestFirst ==
    \A i, j \in DOMAIN qres : i < j => qres[i].ts >= qres[j].ts

\* FileStorage.Query returned an older record before a newer one.
C10_Witness ==
    /\ sut = "file"
    /\ \E i, j \in DOMAIN qres : i < j /\ qres[i].ts < qres[j].ts

\* C11: a Query whose filter sets no predicate (and skips nothing) returns
\* every stored record: when the records written and not expired are no more
\* than the normalized limit, each of them is in the result exactly once.
\* the state is the one the last Query (the last Queries in a row) returned in
qfresh == lastOp = "query"
NoPredicates(f) == f.userID = "" /\ f.startTime = 0 /\ f.endTime = 0 /\ f.offset = 0
Stored == IF sut = "file" THEN fileRecords
          ELSE IF sut = "database" THEN dbRows
          ELSE redisLive
Occurrences(q, r) == Cardinality({i \in DOMAIN q : q[i] = r})
SameRecords(q1, q2) == \A r \in Records : Occurrences(q1, r) = Occurrences(q2, r)

C11_UnfilteredQueryReturnsAll ==
    (qfresh /\ NoPredicates(qfilter) /\ Len(Stored) <= qfilter.limit) =>
        SameRecords(qres, Stored)

\* Two records without identifiers were written at the same timestamp to the
\* cache-store and the Query that followed returned one of them alone.
C11_Witness ==
    /\ sut = "redis" /\ qfresh /\ NoPredicates(qfilter)
    /\ Len(redisLive) = 2 /\ Len(redisLive) <= qfilter.limit
    /\ redisLive[1] # redisLive[2]
    /\ Len(qres) = 1

\* C12: with no Write in between, Query(L, 0) followed by Query(L, L) gives
\* two slices whose concatenation is Query(2L, 0), and which share no record
\* when the stored records are pairwise different; on every backend, with and
\* without predicates.
PairwiseDifferent(q) == \A i, j \in DOMAIN q : i # j => q[i] # q[j]

C12_PagesDisjointContiguous ==
    (qfresh /\ pages # <<>>) =>
        /\ pages[1] \o pages[2] = pages[3]
        /\ PairwiseDifferent(Stored) =>
              \A i \in DOMAIN pages[1], j \in DOMAIN pages[2] : pages[1][i] # pages[2][j]

\* The relational backend holds two rows of equal timestamp and the two pages
\* of size one returned the same row.
C12_Witness ==
    /\ sut = "database" /\ qfresh /\ pages # <<>>
    /\ Len(dbRows) = 2 /\ dbRows[1] # dbRows[2] /\ dbRows[1].ts = dbRows[2].ts
    /\ Len(pages[1]) = 1 /\ pages[1] = pages[2]

\* C13: two records without event id, challenge id and user id, written at
\* the same timestamp and not expired, are both returned by an unfiltered
\* Query: each has a result of its own, neither Write replaced the other.
NoIds(r) == r.eventID = "" /\ r.challengeID = "" /\ r.userID = ""

C13_NoIdSameTimestampBothStored ==
    (sut = "redis" /\ qfresh /\ NoPredicates(qfilter) /\ Len(redisLive) <= qfilter.limit) =>
        \A i, j \in DOMAIN redisLive :
            (i < j /\ NoIds(redisLive[i]) /\ NoIds(redisLive[j])
                   /\ redisLive[i].ts = redisLive[j].ts) =>
                \E m, n \in DOMAIN qres :
                    m # n /\ qres[m] = redisLive[i] /\ qres[n] = redisLive[j]

\* A login_success and a login_failed record without identifiers were written
\* at one timestamp; the Query that followed returned the second alone.
C13_Witness ==
    /\ sut = "redis" /\ qfresh /\ Len(redisLive) = 2
    /\ NoIds(redisLive[1]) /\ NoIds(redisLive[2])
    /\ redisLive[1].ts = redisLive[2].ts
    /\ redisLive[1].eventType = "login_success" /\ redisLive[2].eventType = "login_failed"
    /\ qres = <<redisLive[2]>>

\* C14: two unexpired records written with the same timestamp that differ in
\* event id, challenge id or user id have different keys, and each is the
\* record stored under its key.
IdsDiffer(r1, r2) ==
    \/ r1.eventID # r2.eventID
    \/ r1.challengeID # r2.challengeID
    \/ r1.userID # r2.userID

StoredUnderOwnKey(r) == [key |-> RedisKey(r), rec |-> r] \in redisData

C14_DifferingIdsDistinctKeys ==
    \A i, j \in DOMAIN redisLive :
        (i # j /\ redisLive[i].ts = redisLive[j].ts /\ IdsDiffer(redisLive[i], redisLive[j])) =>
            /\ RedisKey(redisLive[i]) # RedisKey(redisLive[j])
            /\ StoredUnderOwnKey(redisLive[i])
            /\ StoredUnderOwnKey(redisLive[j])

\* Two records of one challenge and different users were written at one
\* timestamp; the first is no longer stored.
C14_Witness ==
    /\ sut = "redis" /\ Len(redisLive) = 2
    /\ redisLive[1].ts = redisLive[2].ts
    /\ redisLive[1].eventID = "" /\ redisLive[2].eventID = ""
    /\ redisLive[1].challengeID = "a" /\ redisLive[2].challengeID = "a"
    /\ redisLive[1].userID # redisLive[2].userID
    /\ ~StoredUnderOwnKey(redisLive[1])

\* C15: every record key that exists carries an expiry, and the index key,
\* which exists exactly when the sorted set has a member, carries one too.
C15_KeysCarryExpiry ==
    /\ \A e \in redisData : e.key \in recordTTL
    /\ redisIndex # {} => indexTTL

\* A Write has just returned: its record key has an expiry, the index key
\* exists without one.
C15_Witness ==
    /\ sut = "redis" /\ lastOp = "write"
    /\ \E e \in redisData : e.key \in recordTTL /\ e.key \in redisIndex
    /\ ~indexTTL

C17_CloseIdempotent ==
    \A i \in DOMAIN closeRets : \A n \in 2..Len(closeRets[i]) : closeRets[i][n] = "nil"

\* C17 as the code has it: every Close call after the first returns nil on
\* the relational and the no-op backend and on a fan-out whose entries are of
\* these kinds; on the file backend every Close call after the first returns
\* the error of closing a closed file, and a fan-out returns an error exactly
\* when one of its entries did.
QuietKinds == {"database", "noop", "nil"}

C17_CloseIdempotentWhereHandleAllows ==
    /\ \A i \in DOMAIN storages :
          /\ storages[i] \in QuietKinds =>
                \A n \in DOMAIN closeRets[i] : closeRets[i][n] = "nil"
          /\ storages[i] = "file" =>
                \A n \in DOMAIN closeRets[i] : closeRets[i][n] = (IF n = 1 THEN "nil" ELSE "err")
    /\ (\A i \in DOMAIN storages : storages[i] \in QuietKinds) =>
          \A n \in DOMAIN closeRets[0] : closeRets[0][n] = "nil"
    /\ (\E i \in DOMAIN storages : storages[i] = "file") =>
          \A n \in 2..Len(closeRets[0]) : closeRets[0][n] = "err"

\* A fan-out of a file and a relational backend was closed twice: the second
\* Close returned nil on the relational entry, an error on the file entry and
\* an error on the fan-out.
C17_Witness ==
    /\ storages # <<>>
    /\ storages[1] = "file" /\ storages[2] = "database"
    /\ closeRets[0] = <<"nil", "err">>
    /\ closeRets[1] = <<"nil", "err">>
    /\ closeRets[2] = <<"nil", "nil">>

\* C18: with a supported database type, a table name that is empty, longer
\* than the maximum length or has a character that is no letter, digit or
\* underscore makes the constructor return a configuration error, and no
\* statement has been sent to the database.
maxTableNameLen == MaxNameLen - 1

InvalidTableName(name) ==
    \/ name = <<>>
    \/ Len(name) > maxTableNameLen
    \/ \E i \in DOMAIN name : name[i] \notin IdentChars

C18_InvalidTableNameRejected ==
    (newRet # "none" /\ dbType \in {"postgres", "mysql", "sqlite"}
                     /\ InvalidTableName(tableName)) =>
        (newRet = "err_config" /\ sqlLog = <<>>)

\* The constructor was given the table name "a; " and sqlite: the statement
\* built from the name was sent to the database.
C18_Witness ==
    /\ newRet # "none" /\ dbType = "sqlite"
    /\ tableName = <<"a", ";", " ">>
    /\ sqlLog = <<tableName>>

\* C19: when filePath is a symbolic link, NewFileStorage returns an error,
\* opens nothing and no record reaches the link's target.
C19_SymlinkRefused ==
    (pathKind = "symlink" /\ opened # "none") =>
        (opened = "err" /\ rotated = [c \in DOMAIN rotated |-> <<>>] /\ fileRecords = <<>>)

\* NewFileStorage on a symbolic link succeeded and a Write went through the
\* link into its target.
C19_Witness ==
    /\ pathKind = "symlink" /\ opened = "target"
    /\ lastOp = "write" /\ Len(fileRecords) = 1

\* C20: a Rotate leaves a fresh, empty file at the path and loses no record:
\* every record is in the renamed files and the current file as often after
\* the Rotate as before it (also when the suffix second has been used by an
\* earlier Rotate); a Query returns records of the current file only.
Held(rs, recs, r) ==
    Occurrences(recs, r) + Cardinality({<<c, i>> \in (DOMAIN rs) \X (1..MaxFileWrites) :
                                           i <= Len(rs[c]) /\ rs[c][i] = r})

C20_RotateLosesNoRecord ==
    [][/\ lastOp' = "rotate" =>
             /\ fileRecords' = <<>>
             /\ \A r \in FileRecordSet :
                   Held(rotated', fileRecords', r) = Held(rotated, fileRecords, r)
       /\ lastOp' = "query" =>
             \A i \in DOMAIN qres' : Occurrences(fileRecords, qres'[i]) > 0]_vars

\* A Rotate has renamed a file that held two records and left a fresh file
\* at the path.
C20_Witness ==
    /\ opened = "path" /\ lastOp = "rotate"
    /\ Len(rotated[clock]) = 2
    /\ fileRecords = <<>>

\* C21: a file Query over a file that holds a line longer than the per-line
\* ceiling returns no error and returns the matching records of the other
\* lines.
C21_OversizedLineSkipped ==
    (sut = "file" /\ qfresh /\ \E l \in oddLines : l.kind = "oversized") =>
        (qerr = "nil" /\ qres = FileQueryResult(qfilter))

\* The file holds a record and an oversized line after it; the Query that
\* followed returned an error and no record.
C21_Witness ==
    /\ sut = "file" /\ qfresh
    /\ Len(fileRecords) = 1 /\ NoPredicates(qfilter)
    /\ oddLines = {[pos |-> 1, kind |-> "oversized"]}
    /\ qerr = "err" /\ qres = <<>>

\* C22: after Writes that returned nil, a file Query returns no error and
\* returns every written record that matches its filter and that its page
\* covers: the record with `rank` matching records written after it is at
\* position rank - offset + 1 of the result when offset <= rank < offset + limit.
NewerMatching(i) ==
    Cardinality({j \in DOMAIN fileRecords : j > i /\ matchesFilter(fileRecords[j], qfilter)})

C22_FileReadYourWrites ==
    (sut = "file" /\ qfresh) =>
        /\ qerr = "nil"
        /\ \A i \in DOMAIN fileRecords :
              (/\ matchesFilter(fileRecords[i], qfilter)
               /\ qfilter.offset <= NewerMatching(i)
               /\ NewerMatching(i) < qfilter.offset + qfilter.limit) =>
                  /\ NewerMatching(i) - qfilter.offset + 1 \in DOMAIN qres
                  /\ qres[NewerMatching(i) - qfilter.offset + 1] = fileRecords[i]

\* A Write of an over-long record returned nil, a Write of a record followed
\* and returned nil; the unfiltered Query after them returned an error.
C22_Witness ==
    /\ sut = "file" /\ qfresh /\ NoPredicates(qfilter)
    /\ oddLines = {[pos |-> 0, kind |-> "oversized"]}
    /\ Len(fileRecords) = 1
    /\ qerr = "err"

\* C23: a Write or Close of the fan-out calls every non-nil entry once, in
\* order, whichever of them fail, and returns the error of the first entry
\* that failed, nil when none failed.
C23_FanOutVisitsAllReturnsFirstError ==
    fanOp \in {"write", "close"} =>
        /\ \A i \in DOMAIN storages :
              Cardinality({k \in DOMAIN fanVisited : fanVisited[k] = i})
                  = (IF storages[i] = "nil" THEN 0 ELSE 1)
        /\ \A k, l \in DOMAIN fanVisited : k < l => fanVisited[k] < fanVisited[l]
        /\ fanRet.err <=> fanErrs # {}
        /\ fanRet.err => (fanRet.src \in fanErrs /\ \A j \in fanErrs : fanRet.src <= j)

\* A Write in which the first entry failed was still made on the second
\* entry, which stored the record; the first entry's error was returned.
C23_Witness ==
    /\ fanOp = "write" /\ fanVisited = <<1, 2>>
    /\ fanErrs = {1} /\ fanRet = [src |-> 1, err |-> TRUE, n |-> 0]
    /\ entryRecords = <<0, 1>>

\* C24: a Query of the fan-out calls the first non-nil entry and no other and
\* returns that entry's records or error; with no non-nil entry it calls
\* none and returns an error.
C24_FanOutQueryFirstOnly ==
    fanOp = "query" =>
        IF \A i \in DOMAIN storages : storages[i] = "nil"
        THEN fanVisited = <<>> /\ fanRet.err /\ fanRet.src = 0
        ELSE LET first == CHOOSE i \in DOMAIN storages :
                               /\ storages[i] # "nil"
                               /\ \A j \in 1..(i - 1) : storages[j] = "nil"
             IN /\ fanVisited = <<first>>
                /\ fanRet.src = first
                /\ fanRet.err <=> first \in fanErrs
                /\ ~fanRet.err => fanRet.n = entryRecords[first]

\* The first entry's Query failed while the second entry holds a record: the
\* fan-out returned the first entry's error.
C24_Witness ==
    /\ fanOp = "query" /\ fanVisited = <<1>>
    /\ fanRet = [src |-> 1, err |-> TRUE, n |-> 0]
    /\ entryRecords[2] = 1

\* ---------------------------------------------------------------------
\* Logger.Log: timestamp, masking, hand-off to the Writer or the storage
\* ---------------------------------------------------------------------

MaxLogs == 2         \* Log calls that reach a sink

\* A destination is a text and the maskers that have been applied to it, in
\* order (secure.MaskPhone and secure.MaskEmail are library functions).
Destination(text, by) == [text |-> text, by |-> by]
Destinations == {Destination("", <<>>), Destination("d", <<>>)}
LogChannels == {"sms", "email", "push"}

\* The records a caller passes to Log: Timestamp is an int64 the caller may
\* have set to anything; 0 is the unset value.
LogRecords == [timestamp : -1..MaxTs, destination : Destinations, channel : LogChannels]

\* time.Now().Unix() at the call
NowValues == 1..MaxTs

LogConfigs == [enabled : BOOLEAN, mask : BOOLEAN, sink : {"writer", "storage", "none"}]

MaskDestination(dest, channel) ==
    IF dest.text = "" THEN Destination("", <<>>)
    ELSE CASE channel \in {"sms", "phone"} -> Destination(dest.text, Append(dest.by, "MaskPhone"))
           [] channel = "email" -> Destination(dest.text, Append(dest.by, "MaskEmail"))
           [] OTHER -> Destination("****", <<>>)

\* Faulty variant: the record is handed off first and masked afterwards.
Log_MasksAfterHandOff(record, now) ==
    /\ logConfig.enabled
    /\ logConfig.sink # "none"
    /\ Cardinality(handed) < MaxLogs
    /\ LET stamped == IF record.timestamp = 0 THEN [record EXCEPT !.timestamp = now]
                      ELSE record
       IN  handed' = handed \cup {[given |-> record, got |-> stamped]}
    /\ UNCHANGED <<writerVars, stopVars, backendVars, obsVars, coreStoreVars, closeVars,
                   tableVars, fsVars, lineVars, fanVars, normVars, lateVars, logConfig>>

\* Logger.Log(ctx, record): nothing when disabled; Timestamp = now when it is
\* 0; Destination masked when MaskDestination is set and it is not empty;
\* then writer.Enqueue(record), or storage.Write(ctx, record) without a
\* writer.
Log(record, now) ==
    /\ Cardinality(handed) < MaxLogs
    /\ IF ~logConfig.enabled \/ logConfig.sink = "none"
       THEN UNCHANGED handed
       ELSE LET stamped == IF record.timestamp = 0 THEN [record EXCEPT !.timestamp = now]
                           ELSE record
                masked == IF logConfig.mask /\ stamped.destination.text # ""
                          THEN [stamped EXCEPT !.destination =
                                    MaskDestination(stamped.destination, stamped.channel)]
                          ELSE stamped
            IN  handed' = handed \cup {[given |-> record, got |-> masked]}
    /\ UNCHANGED <<writerVars, stopVars, backendVars, obsVars, coreStoreVars, closeVars,
                   tableVars, fsVars, lineVars, fanVars, normVars, lateVars, logConfig>>

\* NewLogger(storage, config) or NewLoggerWithWriter(storage, config).
LogInit ==
    /\ NewWriter /\ backend = "mock"
    /\ sut = "none"
    /\ CoreEmpty
    /\ CloseIdle /\ TableIdle /\ FsIdle /\ LineIdle /\ FanIdle /\ NormIdle /\ LateIdle
    /\ logConfig \in LogConfigs
    /\ handed = {}

LogNext == \E record \in LogRecords, now \in NowValues : Log(record, now)

LogSpec == LogInit /\ [][LogNext]_vars

\* C25: with MaskDestination enabled, every record Log hands to the Writer or
\* to the storage carries the mask of the caller's destination and channel,
\* applied once; a non-empty destination never arrives as the caller gave it.
C25_MaskedBeforeHandOff ==
    logConfig.mask =>
        \A h \in handed :
            /\ h.got.destination = MaskDestination(h.given.destination, h.given.channel)
            /\ h.given.destination.text # "" => h.got.destination # h.given.destination

C25_Witness ==
    /\ logConfig.mask
    /\ \E h \in handed : h.given.destination.text # "" /\ h.given.channel = "sms"
    /\ \E h \in handed : h.given.destination.text # "" /\ h.given.channel = "push"

\* C26: every record Log hands to a sink has Timestamp > 0, whatever the
\* Timestamp of the caller's record was.
C26_TimestampPositive == \A h \in handed : h.got.timestamp > 0

\* A record with an unset Timestamp got the current time, and a record with a
\* positive one kept it.
C26_Witness ==
    /\ \E h \in handed : h.given.timestamp = 0 /\ h.got.timestamp \in NowValues
    /\ \E h \in handed : h.given.timestamp > 0 /\ h.got.timestamp = h.given.timestamp

\* ---------------------------------------------------------------------
\* QueryFilter.Normalize called on its own
\* ---------------------------------------------------------------------

\* Limits and offsets a caller may set: below, at and above each threshold
\* of Normalize.
LimitInputs == {-1, 0, 1, DefaultLimit, MaxLimit, MaxLimit + 1}
OffsetInputs == {-1, 0, 1}
NormFilters == [userID : UserIDs, startTime : {0, MaxTs}, endTime : {0, 1},
                limit : LimitInputs, offset : OffsetInputs]

\* f.Normalize(): the filter is changed in place.
NormalizeCall ==
    /\ normIn' = <<qfilter>>
    /\ qfilter' = Normalize(qfilter)
    /\ lastOp' = "normalize"
    /\ UNCHANGED <<writerVars, stopVars, backendVars, obsVars, closeVars, tableVars, fsVars,
                   lineVars, fanVars, logVars, lateVars, sut, fileVars, redisVars, dbVars, qres,
                   pages>>

NormInit ==
    /\ NewWriter /\ backend = "mock"
    /\ sut = "none"
    /\ CoreEmpty
    /\ ExtIdle

NormNext ==
    \/ \E f \in NormFilters : NewFilter(f)
    \/ NormalizeCall

NormSpec == NormInit /\ [][NormNext]_vars

\* C27: after Normalize the limit is in 1..1000 (100 when it was <= 0, 1000
\* when it was > 1000), the offset is >= 0, no other field has changed, and a
\* second Normalize changes nothing.
C27_NormalizeClampsIdempotent ==
    (lastOp = "normalize" /\ normIn # <<>>) =>
        LET before == normIn[1]
        IN  /\ qfilter.limit \in 1..MaxLimit
            /\ before.limit <= 0 => qfilter.limit = DefaultLimit
            /\ before.limit > MaxLimit => qfilter.limit = MaxLimit
            /\ qfilter.offset >= 0
            /\ qfilter.userID = before.userID
            /\ qfilter.startTime = before.startTime
            /\ qfilter.endTime = before.endTime
            /\ Normalize(qfilter) = qfilter

C27_Witness ==
    /\ lastOp = "normalize"
    /\ normIn # <<>>
    /\ normIn[1].limit > MaxLimit
    /\ normIn[1].offset < 0
    /\ normIn[1].userID # ""

\* ---------------------------------------------------------------------
\* Enqueue of a nil record
\* ---------------------------------------------------------------------

\* Enqueue(nil): Enqueue does not look at its argument, so the select is the
\* one of any other call: the nil pointer is sent on the channel when the
\* buffer has room.  The nil record of the k-th Enqueue call is written -k.
EnqueueNil ==
    /\ Len(enq) < MaxRecords
    /\ LET r == 0 - (Len(enq) + 1)
           out == EnqueueOutcome
       IN /\ enq' = Append(enq, out)
          /\ queue' = IF out = "accepted" THEN Append(queue, r) ELSE queue
          /\ enqueueFailedLog' =
                IF out = "rejected"
                THEN Append(enqueueFailedLog, r)
                ELSE enqueueFailedLog
    /\ UNCHANGED <<storeVars, closed, cancelled, started, stopped, workers, stopVars, backendVars,
                   writeLog, writeFailedLog, cancels, queueCloses, enqAtStop,
                   queueAtStop>>

NilNext == Next \/ EnqueueNil

NilSpec == Init /\ [][NilNext]_vars

\* C28: Enqueue(nil) returns false and adds nothing to the queue, so no
\* worker ever holds a nil record and storage.Write is never called with one.
C28_NilNeverEnqueued ==
    /\ \A i \in DOMAIN queue : queue[i] > 0
    /\ \A x \in BagToSet(workers) : x.rec >= 0
    /\ \A i \in DOMAIN writeLog : writeLog[i].rec > 0

\* storage.Write has been called with a nil record.
C28_Witness == \E i \in DOMAIN writeLog : writeLog[i].rec < 0

\* ---------------------------------------------------------------------
\* The WHERE clause of DatabaseStorage.Query against matchesFilter
\* ---------------------------------------------------------------------

\* The filter fields Query passes to addCondition, in call order, and the
\* column each is compared with.
EqConditions ==
    <<[column |-> "event_type", field |-> "eventType"],
      [column |-> "user_id", field |-> "userID"],
      [column |-> "challenge_id", field |-> "challengeID"],
      [column |-> "session_id", field |-> "sessionID"],
      [column |-> "channel", field |-> "channel"],
      [column |-> "result", field |-> "result"],
      [column |-> "ip", field |-> "ip"]>>

\* The t-th record written: Timestamp t; the first has "a" in every compared
\* field, the others a mix of "b", "" and "a".
FieldValue(t, k) == IF t = 1 THEN "a" ELSE <<"b", "", "a">>[((t + k) % 3) + 1]
WhereRecord(t) ==
    [eventType |-> FieldValue(t, 1), userID |-> FieldValue(t, 2),
     challengeID |-> FieldValue(t, 3), sessionID |-> FieldValue(t, 4),
     channel |-> FieldValue(t, 5), result |-> FieldValue(t, 6), ip |-> FieldValue(t, 7),
     ts |-> t]

WhereFilters ==
    [eventType : {"", "a"}, userID : {"", "a"}, challengeID : {"", "a"},
     sessionID : {"", "a"}, channel : {"", "a"}, result : {"", "a"}, ip : {"", "a"},
     startTime : -1..MaxTs, endTime : -1..MaxTs, limit : {0}, offset : {0}]

\* matchesFilter, on every field it compares
matchesFilterFull(record, filter) ==
    /\ ~(filter.eventType # "" /\ record.eventType # filter.eventType)
    /\ ~(filter.userID # "" /\ record.userID # filter.userID)
    /\ ~(filter.challengeID # "" /\ record.challengeID # filter.challengeID)
    /\ ~(filter.sessionID # "" /\ record.sessionID # filter.sessionID)
    /\ ~(filter.channel # "" /\ record.channel # filter.channel)
    /\ ~(filter.result # "" /\ record.result # filter.result)
    /\ ~(filter.ip # "" /\ record.ip # filter.ip)
    /\ ~(filter.startTime > 0 /\ record.ts < filter.startTime)
    /\ ~(filter.endTime > 0 /\ record.ts > filter.endTime)

\* The INSERT of Write: the columns of the row of a record.
InsertRow(record) ==
    [event_type |-> record.eventType, user_id |-> record.userID,
     challenge_id |-> record.challengeID, session_id |-> record.sessionID,
     channel |-> record.channel, result |-> record.result, ip |-> record.ip,
     timestamp |-> record.ts]

\* rows.Scan and the assignments after it: the record of a row.
ScanRow(row) ==
    [eventType |-> row.event_type, userID |-> row.user_id,
     challengeID |-> row.challenge_id, sessionID |-> row.session_id,
     channel |-> row.channel, result |-> row.result, ip |-> row.ip,
     ts |-> row.timestamp]

\* The statement under construction: whereClauses, args, argIndex.  A clause
\* is [column, op, ph]: ph is N for the placeholder $N (postgres) and 0 for
\* "?", which stands for the argument at the clause's own position.
NoClauses == [clauses |-> <<>>, args |-> <<>>, argIndex |-> 1]
Clause(st, column, op, arg) ==
    [clauses |-> Append(st.clauses,
                        [column |-> column, op |-> op,
                         ph |-> IF dbType = "postgres" THEN st.argIndex ELSE 0]),
     args |-> Append(st.args, arg),
     argIndex |-> st.argIndex + 1]

\* Faulty variant: an empty filter value is compared like any other.
addCondition_ComparesEmpty(st, column, value) == Clause(st, column, "=", value)

\* addCondition(column, value): nothing for an empty value.
addCondition(st, column, value) ==
    IF value = "" THEN st ELSE Clause(st, column, "=", value)

RECURSIVE addConditions(_, _, _)
addConditions(st, filter, k) ==
    IF k > Len(EqConditions) THEN st
    ELSE addConditions(addCondition(st, EqConditions[k].column, filter[EqConditions[k].field]),
                       filter, k + 1)

\* The WHERE clause Query builds for a normalized filter.
WhereClause(filter) ==
    LET eq == addConditions(NoClauses, filter, 1)
        from == IF filter.startTime > 0
                THEN Clause(eq, "timestamp", ">=", filter.startTime) ELSE eq
    IN  IF filter.endTime > 0
        THEN Clause(from, "timestamp", "<=", filter.endTime) ELSE from

\* The database's evaluation of the k-th clause on a row.
ClauseHolds(row, st, k) ==
    LET c == st.clauses[k]
        arg == IF c.ph = 0 THEN st.args[k] ELSE st.args[c.ph]
    IN  CASE c.op = "=" -> row[c.column] = arg
          [] c.op = ">=" -> row[c.column] >= arg
          [] c.op = "<=" -> row[c.column] <= arg

Selected(rows, st) ==
    SelectSeq(rows, LAMBDA row : \A k \in DOMAIN st.clauses : ClauseHolds(row, st, k))

whereOthers == <<writerVars, stopVars, backendVars, obsVars, closeVars, fsVars, lineVars,
                 fanVars, logVars, normVars, lateVars, sut, fileVars, redisVars, tableVars>>

\* DatabaseStorage.Write of the next record.
WhereWrite ==
    /\ Len(dbRows) < MaxTs
    /\ dbRows' = Append(dbRows, InsertRow(WhereRecord(Len(dbRows) + 1)))
    /\ lastOp' = "write"
    /\ UNCHANGED <<whereOthers, qfilter, qres, pages>>

\* DatabaseStorage.Query(ctx, filter): Normalize, the WHERE clause, ORDER BY
\* timestamp DESC, LIMIT and OFFSET, then the scan of every row returned.
WhereQuery ==
    /\ LET filter == Normalize(qfilter)
           rows == Selected(dbRows, WhereClause(filter))
           scanned == [i \in DOMAIN rows |-> ScanRow(rows[i])]
       IN /\ qfilter' = filter
          /\ \E sorted \in ByTimestampDesc(scanned) : qres' = Page(sorted, filter)
    /\ lastOp' = "query"
    /\ UNCHANGED <<whereOthers, dbRows, pages>>

WhereInit ==
    /\ NewWriter /\ backend = "mock"
    /\ sut = "database"
    /\ fileRecords = <<>>
    /\ redisData = {} /\ redisIndex = {} /\ redisLive = <<>>
    /\ recordTTL = {} /\ indexTTL = FALSE /\ removed = -1
    /\ dbRows = <<>>
    /\ qres = <<>> /\ lastOp = "none" /\ pages = <<>>
    /\ CloseIdle /\ FsIdle /\ LineIdle /\ FanIdle /\ LogIdle /\ NormIdle /\ LateIdle
    /\ tableName = <<>> /\ sqlLog = <<>> /\ newRet = "none"
    /\ dbType \in {"postgres", "mysql", "sqlite"}
    /\ qfilter \in WhereFilters

WhereNext == WhereWrite \/ WhereQuery

WhereSpec == WhereInit /\ [][WhereNext]_vars

OldRecord ==
    [ts |-> 1, eventType |-> "login_success", eventID |-> "", challengeID |-> "",
     userID |-> "u1"]
NewRecord ==
    [ts |-> Slack + 3, eventType |-> "login_success", eventID |-> "", challengeID |-> "",
     userID |-> "u1"]
Backlog(n) ==
    [i \in 1..n |-> [ts |-> i + 1, eventType |-> "login_failed", eventID |-> "",
                     challengeID |-> "", userID |-> ""]]
BacklogSizes == {0, 1, Slack - 1, Slack + 1}

\* Queries for the records of u1, page by page.
OverReadFilters == [userID : {"u1"}, startTime : {0}, endTime : {0}, limit : {1, 2},
                    offset : {0, 1}]

\* The store after Write of each record of a sequence with distinct keys.
OverReadInit ==
    /\ NewWriter /\ backend = "mock"
    /\ ExtIdle
    /\ sut = "redis"
    /\ \E n \in BacklogSizes, old \in SUBSET {OldRecord}, new \in SUBSET {NewRecord} :
          LET written == (IF old = {} THEN <<>> ELSE <<OldRecord>>) \o Backlog(n)
                         \o (IF new = {} THEN <<>> ELSE <<NewRecord>>)
              keys == {RedisKey(written[i]) : i \in DOMAIN written}
          IN  /\ redisLive = written
              /\ redisData = {[key |-> RedisKey(written[i]), rec |-> written[i]] :
                                 i \in DOMAIN written}
              /\ redisIndex = keys
              /\ recordTTL = keys
    /\ indexTTL = FALSE
    /\ removed = -1
    /\ fileRecords = <<>>
    /\ dbRows = <<>>
    /\ qfilter \in OverReadFilters
    /\ qres = <<>>
    /\ lastOp = "none"
    /\ pages = <<>>

OverReadNext ==
    \/ \E f \in OverReadFilters : NewFilter(f)
    \/ \E k \in {RedisKey(OldRecord), RedisKey(NewRecord)} : RedisExpire(k)
    \/ RedisQuery

OverReadSpec == OverReadInit /\ [][OverReadNext]_vars

\* The live indexed records inside the filter's timestamp bounds that match
\* it, in the order written.
LiveMatching(filter) ==
    Matching(SelectSeq(redisLive,
                       LAMBDA r : /\ RedisKey(r) \in redisIndex
                                  /\ filter.startTime > 0 => r.ts >= filter.startTime
                                  /\ filter.endTime > 0 => r.ts <= filter.endTime),
             filter)

\* C30: a cache-store Query with an equality filter returns the page
\* [offset, offset+limit) of the matching live indexed records sorted by
\* timestamp descending, however many non-matching entries the index holds.
C30_OverReadMissesNothing ==
    lastOp = "query" =>
        \E sorted \in ByTimestampDesc(LiveMatching(qfilter)) : qres = Page(sorted, qfilter)

\* A Query returned nothing although a live record of the user is indexed.
C30_Witness ==
    /\ lastOp = "query"
    /\ qfilter.offset = 0
    /\ qres = <<>>
    /\ LiveMatching(qfilter) # <<>>

\* ---------------------------------------------------------------------
\* FileStorage.Write, Query, Rotate and Close under concurrent callers
\* ---------------------------------------------------------------------

NumCallers == 2      \* goroutines calling methods of one FileStorage
MaxAtomWrites == 2   \* records in the file and the buffer together

Callers == 1..NumCallers
Idle == [at |-> "idle", tok |-> 0]

\* The bytes of a record written by caller c are written c; 0 is the "\n".
\* The records of caller 1 are longer than the buffer of s.writer (bufio
\* writes such data to the file directly when the buffer is empty), those
\* of the other callers fit it.
Newline == 0
RecordBytes(c) == c
IsLong(tok) == tok = 1

\* The bytes are whole newline-terminated records.
WholeLines(bytes) ==
    /\ Len(bytes) % 2 = 0
    /\ \A i \in DOMAIN bytes : (bytes[i] = Newline) <=> (i % 2 = 0)

Methods == {"write", "query", "rotate", "close"}
FirstStatement(m) ==
    CASE m = "write" -> "w_data"
      [] m = "query" -> "q_flush"
      [] m = "rotate" -> "r_flush"
      [] m = "close" -> "c_flush"

\* s.writer.Flush(): the buffer goes to the file; on a closed file it fails
\* and the buffer keeps its bytes (and the writer its error).
FlushOk == fbuf = <<>> \/ fhandle = "open"
Flushed == IF fhandle = "open" THEN fdisk \o fbuf ELSE fdisk
Unflushed == IF fhandle = "open" THEN <<>> ELSE fbuf

atomOthers == <<writerVars, stopVars, backendVars, obsVars, coreStoreVars, closeVars,
                tableVars, fsVars, lineVars, fanVars, logVars, normVars, confVars,
                stepVars, rotVars>>

Goto(c, at) == fpc' = [fpc EXCEPT ![c].at = at]
Unlock(c) == fmu' = 0 /\ fpc' = [fpc EXCEPT ![c] = Idle]

\* Faulty variant: the method does not wait for s.mu.
FileLock_NoMutex(c, m) ==
    /\ fpc[c] = Idle
    /\ m = "write" => Len(fdisk) + Len(fbuf) < 2 * MaxAtomWrites
    /\ fmu' = c
    /\ fpc' = [fpc EXCEPT ![c] = [at |-> FirstStatement(m),
                                  tok |-> IF m = "write" THEN RecordBytes(c) ELSE 0]]
    /\ UNCHANGED <<fbuf, fdisk, fhandle, fobs, atomOthers>>

\* s.mu.Lock() at the entry of Write, Query, Rotate and Close.
FileLock(c, m) ==
    /\ fpc[c] = Idle
    /\ fmu = 0
    /\ m = "write" => Len(fdisk) + Len(fbuf) < 2 * MaxAtomWrites
    /\ fmu' = c
    /\ fpc' = [fpc EXCEPT ![c] = [at |-> FirstStatement(m),
                                  tok |-> IF m = "write" THEN RecordBytes(c) ELSE 0]]
    /\ UNCHANGED <<fbuf, fdisk, fhandle, fobs, atomOthers>>

\* Write, one statement at a time: s.writer.Write(data), WriteString("\n"),
\* Flush, each returning (and unlocking, by the deferred Unlock) on error.
WriteStep(c) ==
    /\ \/ /\ fpc[c].at = "w_data"
          /\ IF fbuf # <<>> /\ fhandle = "closed"
             THEN Unlock(c) /\ UNCHANGED <<fbuf, fdisk>>
             ELSE IF IsLong(fpc[c].tok) /\ fbuf = <<>>
             THEN IF fhandle = "open"
                  THEN fdisk' = Append(fdisk, fpc[c].tok) /\ Goto(c, "w_nl") /\ UNCHANGED <<fbuf, fmu>>
                  ELSE Unlock(c) /\ UNCHANGED <<fbuf, fdisk>>
             ELSE fbuf' = Append(fbuf, fpc[c].tok) /\ Goto(c, "w_nl") /\ UNCHANGED <<fdisk, fmu>>
       \/ /\ fpc[c].at = "w_nl"
          /\ fbuf' = Append(fbuf, Newline)
          /\ Goto(c, "w_flush")
          /\ UNCHANGED <<fdisk, fmu>>
       \/ /\ fpc[c].at = "w_flush"
          /\ fdisk' = Flushed
          /\ fbuf' = Unflushed
          /\ Unlock(c)
    /\ UNCHANGED <<fhandle, fobs, atomOthers>>

\* Query: Flush (its error ignored), then os.Open(s.filePath) and the scan of
\* the whole file.
QueryStep(c) ==
    /\ \/ /\ fpc[c].at = "q_flush"
          /\ fdisk' = Flushed
          /\ fbuf' = Unflushed
          /\ Goto(c, "q_read")
          /\ UNCHANGED <<fmu, fobs>>
       \/ /\ fpc[c].at = "q_read"
          /\ fobs' = fdisk
          /\ Unlock(c)
          /\ UNCHANGED <<fbuf, fdisk>>
    /\ UNCHANGED <<fhandle, atomOthers>>

\* Rotate: Flush, s.file.Close(), os.Rename, os.OpenFile of a new file.
RotateStep(c) ==
    /\ \/ /\ fpc[c].at = "r_flush"
          /\ IF FlushOk
             THEN fdisk' = Flushed /\ fbuf' = Unflushed /\ Goto(c, "r_close") /\ UNCHANGED fmu
             ELSE Unlock(c) /\ UNCHANGED <<fbuf, fdisk>>
          /\ UNCHANGED fhandle
       \/ /\ fpc[c].at = "r_close"
          /\ IF fhandle = "open"
             THEN fhandle' = "closed" /\ Goto(c, "r_rename") /\ UNCHANGED fmu
             ELSE Unlock(c) /\ UNCHANGED fhandle
          /\ UNCHANGED <<fbuf, fdisk>>
       \/ /\ fpc[c].at = "r_rename"
          /\ fdisk' = <<>>
          /\ Goto(c, "r_open")
          /\ UNCHANGED <<fbuf, fhandle, fmu>>
       \/ /\ fpc[c].at = "r_open"
          /\ fhandle' = "open"
          /\ fbuf' = <<>>
          /\ Unlock(c)
          /\ UNCHANGED fdisk
    /\ UNCHANGED <<fobs, atomOthers>>

\* Close: Flush (its error ignored), s.file.Close().
CloseStep(c) ==
    /\ \/ /\ fpc[c].at = "c_flush"
          /\ fdisk' = Flushed
          /\ fbuf' = Unflushed
          /\ Goto(c, "c_close")
          /\ UNCHANGED <<fhandle, fmu>>
       \/ /\ fpc[c].at = "c_close"
          /\ fhandle' = "closed"
          /\ Unlock(c)
          /\ UNCHANGED <<fbuf, fdisk>>
    /\ UNCHANGED <<fobs, atomOthers>>

\* NewFileStorage on an absent path, shared by the callers.
AtomInit ==
    /\ NewWriter /\ backend = "mock"
    /\ sut = "file"
    /\ CoreEmpty
    /\ CloseIdle /\ TableIdle /\ FsIdle /\ LineIdle /\ FanIdle /\ LogIdle /\ NormIdle
    /\ ConfIdle /\ StepIdle /\ RotIdle
    /\ fmu = 0
    /\ fpc = [c \in Callers |-> Idle]
    /\ fbuf = <<>>
    /\ fdisk = <<>>
    /\ fhandle = "open"
    /\ fobs = <<>>

AtomNext ==
    \/ \E c \in Callers, m \in Methods : FileLock(c, m)
    \/ \E c \in Callers : WriteStep(c)
    \/ \E c \in Callers : QueryStep(c)
    \/ \E c \in Callers : RotateStep(c)
    \/ \E c \in Callers : CloseStep(c)

AtomSpec == AtomInit /\ [][AtomNext]_vars

\* C31: under any interleaving of callers of Write, Query, Rotate and Close,
\* every Query reads whole newline-terminated records, and the file holds
\* whole records whenever no Write is between its first byte and its Flush.
C31_FileHoldsWholeRecords ==
    /\ WholeLines(fobs)
    /\ (\A c \in Callers : fpc[c].at \notin {"w_nl", "w_flush"}) => WholeLines(fdisk)
    /\ \A c \in Callers : fpc[c] # Idle => fmu = c

\* A Query has read the records of two callers, one of them longer than the
\* buffer, and a caller is inside Write again.
C31_Witness ==
    /\ Len(fobs) = 4
    /\ \E i, j \in DOMAIN fobs : IsLong(fobs[i]) /\ fobs[j] # Newline /\ ~IsLong(fobs[j])
    /\ \E c \in Callers : fpc[c].at = "w_flush"

\* ---------------------------------------------------------------------
\* The order of dequeues and of Write calls
\* ---------------------------------------------------------------------

\* NewWriter with Workers = NumWorkers and QueueSize = QueueSize, or with
\* Workers = 1 and a queue of one record more.
OrderConfigs == {[workers |-> NumWorkers, queueSize |-> QueueSize],
                 [workers |-> 1, queueSize |-> QueueSize + 1]}

OrderInit ==
    /\ NewWriter
    /\ sut = "none"
    /\ CoreEmpty
    /\ CloseIdle /\ TableIdle /\ FsIdle /\ LineIdle /\ FanIdle /\ LogIdle /\ NormIdle
    /\ AtomIdle /\ StepIdle /\ RotIdle
    /\ wconfig \in OrderConfigs

OrderSpec == OrderInit /\ [][Next]_vars

\* Records are numbered in the order of their Enqueue calls, so a smaller
\* number was accepted earlier.
Queued(q) == {q[i] : i \in DOMAIN q}
HeldBeforeCall(w) == {x.rec : x \in {y \in BagToSet(w) : y.pc \in {"write", "drainWrite"}}}
WriteCalled == {writeLog[i].rec : i \in DOMAIN writeLog}
                  \cup {x.rec : x \in {y \in BagToSet(workers) : y.pc \in {"inWrite", "inDrainWrite"}}}

\* The record a worker receives in this step, and the record whose
\* storage.Write call starts in this step.
Received(r) == r \in Queued(queue) /\ r \notin Queued(queue') /\ r \in HeldBeforeCall(workers')
CallStarts(r) == r \in HeldBeforeCall(workers) /\ r \notin HeldBeforeCall(workers')

\* C32, as stated: also with several workers the Write calls start in the
\* order in which the records were accepted.
C32_WriteStartsInQueueOrder ==
    [][\A r \in HeldBeforeCall(workers) :
          CallStarts(r) => \A r2 \in HeldBeforeCall(workers) : r2 >= r]_vars

\* C32, amended: records are received from the queue in the order in which
\* they were accepted, whatever the number of workers; with one worker the
\* Write calls start in that order too.
C32_DequeueInAcceptanceOrder ==
    [][/\ \A r \in Queued(queue) :
             Received(r) =>
                /\ \A r2 \in Queued(queue') : r2 > r
                /\ \A r2 \in HeldBeforeCall(workers) \cup WriteCalled : r2 < r
       /\ wconfig.workers = 1 =>
             \A r \in HeldBeforeCall(workers) :
                CallStarts(r) =>
                   /\ \A r2 \in WriteCalled : r2 < r
                   /\ \A r2 \in Queued(queue) : r2 > r]_vars

\* The one worker of a Writer has written two records, in their order.
C32_Witness ==
    /\ wconfig.workers = 1
    /\ Len(writeLog) = 2
    /\ writeLog[1].rec < writeLog[2].rec

\* ---------------------------------------------------------------------
\* The lifecycle of the Writer
\* ---------------------------------------------------------------------

\* C33: Created -> Started -> Stopped only.  The workers are spawned by the
\* first Start, exactly Workers of them, and by no later step; w.started and
\* w.stopped never go back to false; w.stopped implies w.started; and while
\* the Writer has not been started no Stop marks it stopped, cancels, closes
\* the queue or closes the backend.
C33_LifecycleMonotone ==
    [][/\ started => started'
       /\ stopped => stopped'
       /\ stopped' => started'
       /\ BagCardinality(workers') # BagCardinality(workers) =>
             /\ ~started /\ started'
             /\ workers = EmptyBag
             /\ BagCardinality(workers') = wconfig.workers
       /\ started' => BagCardinality(workers') = wconfig.workers
       /\ ~started' =>
             /\ ~stopped' /\ ~cancelled' /\ ~closed'
             /\ storageCloses' = 0
             /\ workers' = EmptyBag
             /\ \A s \in Stoppers : spc'[s] \in {"idle", "done"} /\ sret'[s] \in {"none", "nil"}]_vars

\* The first Stop returned nil without closing the backend, so it ran before
\* Start; the Writer was then started, and stopped by the second Stop, which
\* closed the backend.
C33_Witness ==
    /\ started /\ stopped
    /\ spc[1] = "done" /\ sret[1] = "nil" /\ swait[1] = "none"
    /\ spc[2] = "done" /\ swait[2] = "done"
    /\ storageCloses = 1
    /\ BagCardinality(workers) = wconfig.workers

\* C34: once a Stop whose wait ended because the workers had finished has
\* returned, no accepted record is left in the queue.
C34_NoAcceptedRecordStranded ==
    DrainedStopReturned => queue = <<>>

\* Stop has returned after the workers finished, and the queue holds a record
\* that was accepted after Stop began.
C34_Witness ==
    /\ DrainedStopReturned
    /\ WorkersDone
    /\ queue # <<>>
    /\ Accepted(queue[1])
    /\ queue[1] > enqAtStop

\* a worker holds a record it has received and whose Write has not returned
WriteOutstanding ==
    \E x \in BagToSet(workers) : x.pc \in {"write", "inWrite", "drainWrite", "inDrainWrite"}
TimedOut == \E s \in Stoppers : swait[s] = "timeout"

\* C35: when Stop's wait ends because the workers have finished, every worker
\* has returned (so every Write has returned) when the backend is closed and
\* from then on; a Write call or return that happens once the backend's Close
\* has been called, and a Write outstanding at that time, occur only when the
\* wait timed out.
C35_CloseAfterLastWrite ==
    [][ /\ (\E s \in Stoppers : swait'[s] = "done") => WorkersDone'
        /\ (storageCloses' > 0 /\ (WriteOutstanding' \/ writeLog' # writeLog)) => TimedOut'
      ]_vars

\* The workers wrote a record and finished, Stop's wait ended without the
\* timeout and the backend was closed once.
C35_Witness ==
    /\ \E s \in Stoppers : spc[s] = "done" /\ swait[s] = "done"
    /\ ~TimedOut
    /\ storageCloses = 1
    /\ writeLog # <<>>
    /\ WorkersDone

\* ---------------------------------------------------------------------
\* RedisStorage.Write, Query and Cleanup under concurrent clients: every
\* Redis command is one step
\* ---------------------------------------------------------------------

NumClients == 2      \* goroutines calling methods of one RedisStorage

Clients == 1..NumClients
RIdle == [op |-> "idle", at |-> "", key |-> [ts |-> 0, disc |-> ""], todo |-> <<>>,
          got |-> <<>>, n |-> 0, pre |-> <<FALSE, FALSE>>]

\* The record a client writes: client 1 writes the record of event "a", the
\* other clients a record without identifiers of the same second.
WriterRecord(c) ==
    [ts |-> 1, eventType |-> "login_success", eventID |-> IF c = 1 THEN "a" ELSE "",
     challengeID |-> "", userID |-> ""]

HasValue(key) == \E e \in redisData : e.key = key
ValueOf(key) == (CHOOSE e \in redisData : e.key = key).rec

stepOthers == <<writerVars, stopVars, backendVars, obsVars, sut, fileVars, dbVars,
                closeVars, tableVars, fsVars, lineVars, fanVars, logVars, normVars,
                atomVars, confVars, rotVars>>

Return(c) == rcall' = [rcall EXCEPT ![c] = RIdle]

\* Write: Set(key, data, s.ttl), then ZAdd(<prefix>index, key); returns nil.
RedisWriteStep(c) ==
    /\ \/ /\ rcall[c].op = "idle"
          /\ Len(redisLive) < MaxKeyWrites
          /\ LET record == WriterRecord(c)
                 key == RedisKey(record)
             IN /\ redisData' = {e \in redisData : e.key # key}
                                   \cup {[key |-> key, rec |-> record]}
                /\ recordTTL' = recordTTL \cup {key}
                /\ redisLive' = Append(redisLive, record)
                /\ rcall' = [rcall EXCEPT ![c] =
                                [RIdle EXCEPT !.op = "write", !.at = "zadd", !.key = key,
                                              !.pre = <<HasValue(key), key \in redisIndex>>]]
          /\ lastOp' = "write"
          /\ UNCHANGED <<redisIndex, indexTTL, rret>>
       \/ /\ rcall[c].op = "write" /\ rcall[c].at = "zadd"
          /\ redisIndex' = redisIndex \cup {rcall[c].key}
          /\ indexTTL' = IF redisIndex = {} THEN FALSE ELSE indexTTL
          /\ rret' = [rret EXCEPT ![c] = "nil"]
          /\ Return(c)
          /\ UNCHANGED <<redisData, recordTTL, redisLive, lastOp>>
    /\ UNCHANGED <<removed, qfilter, qres, pages, stepOthers>>

\* Write when a command fails: "failed to set key" leaves the store as it
\* was; "failed to add to sorted set" is returned after the Set was done.
RedisWriteFails(c) ==
    /\ \/ /\ rcall[c].op = "idle"
          /\ rret' = [rret EXCEPT ![c] = "failed to set key"]
          /\ lastOp' = "write"
          /\ UNCHANGED rcall
       \/ /\ rcall[c].op = "write" /\ rcall[c].at = "zadd"
          /\ rret' = [rret EXCEPT ![c] = "failed to add to sorted set"]
          /\ Return(c)
          /\ UNCHANGED lastOp
    /\ UNCHANGED <<redisData, redisIndex, redisLive, recordTTL, indexTTL, removed,
                   qfilter, qres, pages, stepOthers>>

\* Query with the default filter: ZRevRangeByScore; then for each key, Get,
\* and on redis.Nil ZRem of the key; at the end the matching records, sorted,
\* and the page of them.
RedisQueryStep(c) ==
    /\ \/ /\ rcall[c].op = "idle"
          /\ LET filter == Normalize(qfilter)
             IN rcall' = [rcall EXCEPT ![c] =
                   [RIdle EXCEPT !.op = "query", !.at = "get",
                                 !.todo = KeysToSeq(ZRevRangeByScore(filter,
                                              filter.limit + filter.offset + Slack))]]
          /\ lastOp' = "query"
          /\ UNCHANGED <<redisIndex, qres>>
       \/ /\ rcall[c].op = "query" /\ rcall[c].at = "get" /\ rcall[c].todo # <<>>
          /\ LET key == Head(rcall[c].todo)
             IN IF HasValue(key)
                THEN rcall' = [rcall EXCEPT ![c].todo = Tail(@),
                                            ![c].got = Append(@, ValueOf(key))]
                ELSE rcall' = [rcall EXCEPT ![c].at = "zrem"]
          /\ UNCHANGED <<redisIndex, qres, lastOp>>
       \/ /\ rcall[c].op = "query" /\ rcall[c].at = "zrem"
          /\ redisIndex' = redisIndex \ {Head(rcall[c].todo)}
          /\ rcall' = [rcall EXCEPT ![c].at = "get", ![c].todo = Tail(@)]
          /\ UNCHANGED <<qres, lastOp>>
       \/ /\ rcall[c].op = "query" /\ rcall[c].at = "get" /\ rcall[c].todo = <<>>
          /\ LET filter == Normalize(qfilter)
             IN \E sorted \in ByTimestampDesc(Matching(rcall[c].got, filter)) :
                   qres' = Page(sorted, filter)
          /\ Return(c)
          /\ UNCHANGED <<redisIndex, lastOp>>
    /\ UNCHANGED <<redisData, redisLive, recordTTL, indexTTL, removed, rret,
                   qfilter, pages, stepOthers>>

\* Cleanup: ZRange of the whole index; then for each key, Exists, and when it
\* returns 0 ZRem of the key; returns the number of ZRems.
RedisCleanupStep(c) ==
    /\ \/ /\ rcall[c].op = "idle"
          /\ rcall' = [rcall EXCEPT ![c] =
                [RIdle EXCEPT !.op = "cleanup", !.at = "exists",
                              !.todo = Reverse(KeysToSeq(redisIndex))]]
          /\ lastOp' = "cleanup"
          /\ UNCHANGED <<redisIndex, removed>>
       \/ /\ rcall[c].op = "cleanup" /\ rcall[c].at = "exists" /\ rcall[c].todo # <<>>
          /\ IF HasValue(Head(rcall[c].todo))
             THEN rcall' = [rcall EXCEPT ![c].todo = Tail(@)]
             ELSE rcall' = [rcall EXCEPT ![c].at = "zrem"]
          /\ UNCHANGED <<redisIndex, removed, lastOp>>
       \/ /\ rcall[c].op = "cleanup" /\ rcall[c].at = "zrem"
          /\ redisIndex' = redisIndex \ {Head(rcall[c].todo)}
          /\ rcall' = [rcall EXCEPT ![c].at = "exists", ![c].todo = Tail(@),
                                    ![c].n = @ + 1]
          /\ UNCHANGED <<removed, lastOp>>
       \/ /\ rcall[c].op = "cleanup" /\ rcall[c].at = "exists" /\ rcall[c].todo = <<>>
          /\ removed' = rcall[c].n
          /\ Return(c)
          /\ UNCHANGED <<redisIndex, lastOp>>
    /\ UNCHANGED <<redisData, redisLive, recordTTL, indexTTL, rret,
                   qfilter, qres, pages, stepOthers>>

\* NewRedisStorage on an empty Redis, shared by the clients.
IndexInit ==
    /\ NewWriter /\ backend = "mock"
    /\ sut = "redis"
    /\ CoreEmpty
    /\ CloseIdle /\ TableIdle /\ FsIdle /\ LineIdle /\ FanIdle /\ LogIdle /\ NormIdle
    /\ AtomIdle /\ ConfIdle /\ RotIdle
    /\ rcall = [c \in Clients |-> RIdle]
    /\ rret = [c \in Clients |-> "none"]

IndexNext ==
    \/ \E c \in Clients : RedisWriteStep(c)
    \/ \E c \in Clients : RedisQueryStep(c)
    \/ \E c \in Clients : RedisCleanupStep(c)
    \/ \E k \in recordTTL : RedisExpire(k)

IndexSpec == IndexInit /\ [][IndexNext]_vars

\* The same with Redis commands that may fail.
FaultNext ==
    \/ IndexNext
    \/ \E c \in Clients : RedisWriteFails(c)

FaultSpec == IndexInit /\ [][FaultNext]_vars

Quiescent == \A c \in Clients : rcall[c].op # "write"

\* C36: whenever no Write is in progress, every record key that holds a value
\* is a member of the sorted index.
C36_LiveKeysAreIndexed ==
    Quiescent => \A e \in redisData : e.key \in redisIndex

\* No method is in progress, no command has failed, and the key of a record
\* whose Write returned nil holds the record without being in the index.
C36_Witness ==
    /\ \A c \in Clients : rcall[c].op = "idle"
    /\ rret[1] = "nil"
    /\ HasValue(RedisKey(WriterRecord(1)))
    /\ RedisKey(WriterRecord(1)) \notin redisIndex

\* C37: when a Write returns an error, the store holds no record key and no
\* index entry of the record that was not there before the call.
C37_WriteAllOrNothing ==
    [][ \A c \in Clients :
          /\ (rret'[c] = "failed to set key" /\ rret'[c] # rret[c]) =>
                 UNCHANGED <<redisData, redisIndex>>
          /\ (rcall[c].op = "write" /\ rcall'[c].op = "idle" /\ rret'[c] # "nil") =>
                 /\ (\E e \in redisData' : e.key = rcall[c].key) => rcall[c].pre[1]
                 /\ rcall[c].key \in redisIndex' => rcall[c].pre[2]
      ]_vars

\* The last Write of client 1 returned "failed to add to sorted set"; the key
\* of its record holds the value of that one Set and is not in the index.
C37_Witness ==
    /\ \A c \in Clients : rcall[c].op = "idle"
    /\ rret[1] = "failed to add to sorted set"
    /\ HasValue(RedisKey(WriterRecord(1)))
    /\ redisLive = <<WriterRecord(1)>>
    /\ redisIndex = {}

\* ---------------------------------------------------------------------
\* FileStorage.Rotate when os.Rename or os.OpenFile fails
\* ---------------------------------------------------------------------

rotOthers == <<writerVars, stopVars, backendVars, obsVars, coreStoreVars, closeVars,
               tableVars, fsVars, lineVars, fanVars, logVars, normVars, confVars, stepVars>>

\* Rotate returns "failed to rename file" or "failed to open new file": s.file
\* has been closed and s.writer still writes to it; after a failed OpenFile
\* the file has been renamed away as well.
RotateFails(c) ==
    /\ \/ /\ fpc[c].at = "r_rename"
          /\ frot' = "rename"
       \/ /\ fpc[c].at = "r_open"
          /\ frot' = "open"
    /\ Unlock(c)
    /\ UNCHANGED <<fbuf, fdisk, fhandle, fobs, rotOthers>>

\* Callers of Write, Query and Rotate of one FileStorage that is not closed.
RotateNext ==
    \/ \E c \in Callers, m \in Methods \ {"close"} : FileLock(c, m)
    \/ \E c \in Callers : WriteStep(c)
    \/ \E c \in Callers : QueryStep(c)
    \/ \E c \in Callers : RotateStep(c)
    \/ \E c \in Callers : RotateFails(c)

RotateSpec == AtomInit /\ [][RotateNext]_vars

\* C38: once a Rotate has failed at its rename or reopen step, every Write
\* that returns has flushed its record and newline to the file at the
\* original path.
C38_WriteSucceedsAfterFailedRotate ==
    [][ \A c \in Callers :
          (frot # "none" /\ fpc[c].at \in {"w_data", "w_nl", "w_flush"} /\ fpc'[c] = Idle) =>
              /\ fpc[c].at = "w_flush"
              /\ fbuf' = <<>>
              /\ Len(fdisk') >= 2
              /\ fdisk'[Len(fdisk') - 1] = fpc[c].tok
              /\ fdisk'[Len(fdisk')] = Newline
      ]_vars

\* A Rotate failed, and a later Write has returned with its record left in
\* the buffer of the writer of the closed file.
C38_Witness ==
    /\ frot # "none"
    /\ \A c \in Callers : fpc[c] = Idle
    /\ fhandle = "closed"
    /\ fbuf # <<>>
    /\ fbuf[Len(fbuf)] = Newline


====
